---- MODULE Spec2Model ----
(***************************************************************************)
(* Turn-state engine of the Radix Tribes game server (server.js): the      *)
(* in-memory World (gameState), the socket command handlers that mutate    *)
(* it, the end-of-turn advance and the diplomacy commands.  Every handler  *)
(* runs to completion on the single Node.js thread, so one handler is one  *)
(* action.                                                                 *)
(***************************************************************************)
EXTENDS Integers, Sequences, FiniteSets, TLC

VARIABLES
    turn,                       \* gameState.turn
    tribes,                     \* gameState.tribes (array, in insertion order)
    diplomaticProposals,        \* gameState.diplomaticProposals (array)
    startingLocations,          \* gameState.startingLocations (array)
    INITIAL_GLOBAL_RESOURCES,   \* the one shared constants.js object (mutable)
    now,                        \* value returned by Date.now()
    emitted,                    \* payload of the last gamestate_updated
    alert,                      \* socket.emit('alert', ..) of the last command
    log,                        \* logger.warn line written by the last command
    purged,                     \* history: the proposals the last advance dropped
    submissions,                \* history: per tribe id, the submit_turn commands
                                \* accepted since the last advance (at most MaxCount)
    hexInput,                   \* the {q, r} a map key is built from
    hexString,                  \* the key built (characters), empty before
    hexParsed,                  \* what parseHexCoords returned for the key
    hexRange,                   \* a call of getHexesInRange and what it returned
    gen,                        \* the call of generateMapData that is running
    returned,                   \* what the last call of generateMapData returned
    users,                      \* the users array (user names)
    DATA_FILE,                  \* content of the file at DATA_FILE
    BACKUP_FILE,                \* content of the file at BACKUP_FILE
    tempPath,                   \* content of the file at DATA_FILE + '.tmp'
    saveTimeout,                \* saveTimeout holds a timer handle (is not null)
    timers,                     \* setTimeout callbacks scheduled and not cleared
    isShuttingDown,
    exited,                     \* process.exit has been called
    loaded,                     \* what loadData assigned to gameState and users
    saveTrace,                  \* history: the files after each file operation
                                \* of the last saveData, the files before it first
    saveLog,                    \* history: the lines the last saveData logged
    requests,                   \* history: debouncedSave() calls since the last saveData
    coalesced,                  \* history: `requests` when the timer last fired
    faults,                     \* history: file operations that have failed
    banners,                    \* per tribe of gameState.tribes, in the same
                                \* order: its tribeName and its color
    chiefRequests,              \* gameState.chiefRequests (array)
    assetRequests,              \* gameState.assetRequests (array)
    chiefs,                     \* per chiefs array of a home garrison: its names
    assets,                     \* per tribe id: the tribe's assets (names)
    grants,                     \* history: per request, how often it has put a
                                \* chief or an asset into a tribe
    extras,                     \* gameState.mapData, journeys, history, mapSeed
    elapsed,                    \* seconds since the server started
    fireAt,                     \* when the pending save timer is due, -1 if none
    unsavedSince,               \* history: when the first debouncedSave() call not
                                \* yet followed by a save was made, -1 if none
    drawing                     \* add_ai_tribe is in the do-while of generateAITribe

mapVars == <<hexRange, gen, returned>>

hexVars == <<hexInput, hexString, hexParsed, mapVars>>

storeVars == <<users, DATA_FILE, BACKUP_FILE, tempPath, saveTimeout, timers,
               isShuttingDown, exited, loaded, saveTrace, saveLog, requests,
               coalesced, faults>>

\* fields of the World only some specifications follow
requestVars == <<chiefRequests, assetRequests, chiefs, assets, grants>>

timeVars == <<elapsed, fireAt, unsavedSince>>

sideVars == <<banners, requestVars, extras, timeVars, drawing>>

vars == <<turn, tribes, diplomaticProposals, startingLocations,
          INITIAL_GLOBAL_RESOURCES, now, emitted, alert, log, submissions, purged,
          hexVars, storeVars, sideVars>>

\* the parts of the server a specification of the game commands leaves alone
OffStage == UNCHANGED <<hexVars, storeVars, sideVars>>

\* ------------------------------------------------------------------ bounds
NumStart == 2        \* starting locations of the stored map
MaxTribes == 2       \* tribes in the World at once
MaxTurn == 5         \* expiry: process_turn is not issued from this turn on
MaxRound == 2        \* elsewhere: no advance and no new game from this turn on
MaxClock == 1        \* Date.now() takes the values 0..MaxClock
MaxProposals == 1    \* pending proposals kept at once
MaxCount == 2        \* submissions counted per tribe and turn
MaxFood == 110       \* no advance once a tribe's food has reached it
MaxCoord == 12       \* hex coordinates run over -MaxCoord..MaxCoord
MaxFaults == 1       \* file operations that fail in one run
MaxRequests == 2     \* debouncedSave() calls counted between two saves
MaxCenter == 3       \* getHexesInRange: centers run over -MaxCenter..MaxCenter
MaxRange == 2        \* getHexesInRange: ranges run over 0..MaxRange
MaxRadius == 3       \* generateMapData: radii run over 1..MaxRadius
MaxTerrains == 1     \* generateMapData: the terrain draw takes 0.0 .. 0.(MaxTerrains - 1)
MaxSeed == 2         \* generateMapData: seeds run over 1..MaxSeed

\* ---------------------------------------------------------- input domains
War == "War"
Neutral == "Neutral"
Alliance == "Alliance"
DIPLOMATIC_STATUS == {War, Neutral, Alliance}

UserIds == {<<"user", 1>>, <<"user", 2>>}
UnknownTribeId == <<"tribe", -1>>
UnknownProposalId == <<"proposal", -1>>
PlannedActions == {<<"Move">>, <<"Build", "Scout">>}
JourneyResponses == {<<"accept">>}
Locations == [i \in 1..NumStart |-> i]

\* ------------------------------------------------------------ JS helpers
Min(S) == CHOOSE x \in S : \A y \in S : x <= y
Max(S) == CHOOSE x \in S : \A y \in S : x >= y

\* Array.prototype.find: index of the first element satisfying P, 0 if none
\* S is the set of the indices whose element satisfies the predicate
First(S) == IF S = {} THEN 0 ELSE Min(S)

\* the indices of the elements of an array that carry the id
WithId(arr, id) == {i \in 1..Len(arr) : arr[i].id = id}

\* Array.prototype.filter is SelectSeq

\* obj[key] = value on a plain object used as a map
Put(obj, key, value) ==
    [k \in DOMAIN obj \cup {key} |-> IF k = key THEN value ELSE obj[k]]

EmptyObject == [k \in {} |-> 0]

FindTribe_OrFirst(ts, id) ==
    IF First(WithId(ts, id)) = 0 /\ Len(ts) > 0 THEN 1
    ELSE First(WithId(ts, id))

FindTribe(ts, id) == First(WithId(ts, id))
FindProposal(ps, id) == First(WithId(ps, id))

\* the resource pool a tribe's globalResources field points at
GlobalResources(t, shared) ==
    IF t.globalResources.ref = "shared" THEN shared
    ELSE [food |-> t.globalResources.food, scrap |-> t.globalResources.scrap,
          morale |-> t.globalResources.morale]

SharedRef == [ref |-> "shared", food |-> 0, scrap |-> 0, morale |-> 0]
OwnRef(r) == [ref |-> "own", food |-> r.food, scrap |-> r.scrap, morale |-> r.morale]

\* a null element of an array (JSON null)
NullEntry == [null |-> TRUE]
IsNull(x) == "null" \in DOMAIN x

\* the World as one value (what emitGameState serialises)
World == [turn |-> turn, tribes |-> tribes,
          diplomaticProposals |-> diplomaticProposals,
          startingLocations |-> startingLocations,
          shared |-> INITIAL_GLOBAL_RESOURCES]
WorldOf(tn, ts, ps, sl, sh) ==
    [turn |-> tn, tribes |-> ts, diplomaticProposals |-> ps,
     startingLocations |-> sl, shared |-> sh]

\* ------------------------------------------------------- files on disk
\* a value of a JSON document with its shape: gameState is undefined, an
\* object without tribes, or a World; users is undefined or an array
Shaped(shape, value) == [shape |-> shape, value |-> value]

\* gameState as JSON.stringify writes it: every tribe carries a copy of the
\* resources its globalResources field points at
Plain(state) ==
    [turn |-> state.turn,
     tribes |-> [i \in 1..Len(state.tribes) |->
                   [state.tribes[i] EXCEPT !.globalResources =
                        OwnRef(GlobalResources(state.tribes[i], state.shared))]],
     diplomaticProposals |-> state.diplomaticProposals,
     startingLocations |-> state.startingLocations]

\* JSON.stringify({ gameState, users }, null, 2)
Stringify(state, us) ==
    [gameState |-> Shaped("world", Plain(state)), users |-> Shaped("array", us)]

\* getDefaultGameState()
getDefaultGameState ==
    WorldOf(1, << >>, << >>, Locations, [food |-> 100, scrap |-> 20, morale |-> 50])

NoDoc == [gameState |-> Shaped("undefined", Plain(getDefaultGameState)),
          users |-> Shaped("undefined", << >>)]

\* a file: missing, text that JSON.parse rejects (a torn write included), or
\* the text of a document
Missing == [kind |-> "missing", doc |-> NoDoc]
Garbage == [kind |-> "garbage", doc |-> NoDoc]
Json(doc) == [kind |-> "json", doc |-> doc]

AdminOnly == <<"Admin">>

\* the module variables gameState and users once loadData has run
Loaded(done, doc) == [done |-> done, gameState |-> doc.gameState, users |-> doc.users]

\* ------------------------------------------------------------------- Init
\* loadData() has found no file, taken the defaults and saved them
InitStore ==
    /\ users = AdminOnly
    /\ DATA_FILE = Json(Stringify(getDefaultGameState, AdminOnly))
    /\ BACKUP_FILE = Missing
    /\ tempPath = Missing
    /\ saveTimeout = FALSE
    /\ timers = 0
    /\ isShuttingDown = FALSE
    /\ exited = FALSE
    /\ loaded = Loaded(TRUE, Stringify(getDefaultGameState, AdminOnly))
    /\ saveTrace = << >>
    /\ saveLog = << >>
    /\ requests = 0
    /\ coalesced = 0
    /\ faults = 0

InitGame ==
    /\ turn = 1
    /\ tribes = << >>
    /\ diplomaticProposals = << >>
    /\ startingLocations = Locations
    /\ INITIAL_GLOBAL_RESOURCES = [food |-> 100, scrap |-> 20, morale |-> 50]
    /\ now = 0
    /\ emitted = WorldOf(1, << >>, << >>, Locations,
                         [food |-> 100, scrap |-> 20, morale |-> 50])
    /\ alert = ""
    /\ log = ""
    /\ submissions = EmptyObject
    /\ purged = << >>
    /\ banners = << >>
    /\ chiefRequests = << >>
    /\ assetRequests = << >>
    /\ chiefs = EmptyObject
    /\ assets = EmptyObject
    /\ grants = [chief |-> << >>, asset |-> << >>]
    /\ extras = [mapData |-> <<"000.000">>, journeys |-> << >>, history |-> << >>,
                 mapSeed |-> 0]
    /\ elapsed = 0
    /\ fireAt = 0 - 1
    /\ unsavedSince = 0 - 1
    /\ drawing = FALSE
    /\ hexInput = [q |-> 0, r |-> 0]
    /\ hexString = << >>
    /\ hexParsed = [q |-> [kind |-> "unset", value |-> 0],
                    r |-> [kind |-> "unset", value |-> 0]]

\* no call of getHexesInRange or generateMapData has been followed yet
Idle == [phase |-> "idle", radius |-> 0, seed |-> 0, map |-> << >>,
         startingLocations |-> << >>]
NoResult == [radius |-> 0, seed |-> 0, map |-> << >>, startingLocations |-> << >>]

InitMap ==
    /\ hexRange = [done |-> FALSE, center |-> [q |-> 0, r |-> 0], range |-> 0,
                   results |-> << >>]
    /\ gen = Idle
    /\ returned = NoResult

Init == InitGame /\ InitStore /\ InitMap

\* Date.now() moves on between two commands
\* only the comparison of two stamps is ever observed, so the clock is let
\* move on only once the current value has been used in an id
Tick ==
    /\ now < MaxClock
    /\ \/ \E i \in 1..Len(tribes) : tribes[i].id[2] = now
       \/ \E i \in 1..Len(diplomaticProposals) :
              ~IsNull(diplomaticProposals[i]) /\ diplomaticProposals[i].id[2] = now
    /\ now' = now + 1
    /\ UNCHANGED <<turn, tribes, diplomaticProposals, startingLocations,
                   INITIAL_GLOBAL_RESOURCES, emitted, alert, log, submissions, purged>>


\* ------------------------------------------------- socket.on('create_tribe')
\* the diplomacy object the forEach over the existing tribes leaves in the
\* new tribe: one key per existing id, the last tribe with that id wins
InitialDiplomacy(ts, statuses) ==
    [id \in {ts[i].id : i \in 1..Len(ts)} |->
        [status |-> statuses[Max(WithId(ts, id))]]]

\* the existing tribes after the forEach wrote their entry for the new id
WithEntryFor(ts, newId, statuses) ==
    [i \in 1..Len(ts) |->
        [ts[i] EXCEPT !.diplomacy = Put(@, newId, [status |-> statuses[i]])]]

CreateStatus_AllNeutral(ts) ==
    [i \in 1..Len(ts) |-> Neutral]

\* initialStatus, per existing tribe
CreateStatus(ts) ==
    [i \in 1..Len(ts) |-> IF ts[i].isAI THEN War ELSE Neutral]

\* startingLocations.find(loc => !occupied.has(loc)), as an index (0: none)
AvailableStart_Fallback(locations, occupied) ==
    IF \A k \in 1..Len(locations) : locations[k] \in occupied
    THEN IF Len(locations) > 0 THEN 1 ELSE 0
    ELSE First({k \in 1..Len(locations) : locations[k] \notin occupied})

AvailableStart(locations, occupied) ==
    First({k \in 1..Len(locations) : locations[k] \notin occupied})

create_tribe(newTribeData) ==
    LET occupiedLocations == {tribes[i].location : i \in 1..Len(tribes)}
        k == AvailableStart(startingLocations, occupiedLocations)
    IN  IF k = 0
        THEN /\ alert' = "No available starting locations."
             /\ log' = ""
             /\ UNCHANGED <<turn, tribes, diplomaticProposals, startingLocations,
                            INITIAL_GLOBAL_RESOURCES, now, emitted, submissions, purged>>
        ELSE LET availableStart == startingLocations[k]
                 newId == <<"tribe", now>>
                 newTribe ==
                     [id |-> newId,
                      playerId |-> newTribeData.playerId,
                      isAI |-> FALSE,
                      location |-> availableStart,
                      globalResources |-> SharedRef,
                      actions |-> << >>,
                      turnSubmitted |-> FALSE,
                      lastTurnResults |-> << >>,
                      journeyResponses |-> << >>,
                      diplomacy |-> InitialDiplomacy(tribes, CreateStatus(tribes))]
                 newTribes == Append(WithEntryFor(tribes, newId, CreateStatus(tribes)), newTribe)
             IN  /\ tribes' = newTribes
                 /\ emitted' = WorldOf(turn, newTribes, diplomaticProposals,
                                       startingLocations, INITIAL_GLOBAL_RESOURCES)
                 /\ alert' = ""
                 /\ log' = ""
                 /\ UNCHANGED <<turn, diplomaticProposals, startingLocations,
                                INITIAL_GLOBAL_RESOURCES, now, submissions, purged>>

\* ------------------------------------------------- socket.on('submit_turn')
Lock_Appends(tribe, plannedActions, journeyResponses) ==
    [tribe EXCEPT !.actions = @ \o plannedActions,
                  !.turnSubmitted = TRUE,
                  !.journeyResponses = journeyResponses]

\* the three assignments to the tribe found
Lock(tribe, plannedActions, journeyResponses) ==
    [tribe EXCEPT !.actions = plannedActions,
                  !.turnSubmitted = TRUE,
                  !.journeyResponses = journeyResponses]

Count(counts, id) == IF id \in DOMAIN counts THEN counts[id] ELSE 0

submit_turn(tribeId, plannedActions, journeyResponses) ==
    LET i == FindTribe(tribes, tribeId)
    IN  IF i # 0
        THEN LET newTribes == [tribes EXCEPT ![i] =
                                      Lock(@, plannedActions, journeyResponses)]
             IN  /\ tribes' = newTribes
                 /\ submissions' = Put(submissions, tribeId,
                                       Min({MaxCount, Count(submissions, tribeId) + 1}))
                 /\ emitted' = WorldOf(turn, newTribes, diplomaticProposals,
                                       startingLocations, INITIAL_GLOBAL_RESOURCES)
                 /\ alert' = ""
                 /\ log' = ""
                 /\ UNCHANGED <<turn, diplomaticProposals, startingLocations,
                                INITIAL_GLOBAL_RESOURCES, now, purged>>
        ELSE /\ alert' = ""
             /\ log' = "Turn submission attempted for non-existent tribe"
             /\ UNCHANGED <<turn, tribes, diplomaticProposals, startingLocations,
                            INITIAL_GLOBAL_RESOURCES, now, emitted, submissions, purged>>

\* ------------------------------------------------ socket.on('process_turn')
generateAIActions(tribe, allTribes) == << >>

\* a back-fill that also overwrites AI tribes that had submitted
BackFill_EveryAI(ts) ==
    [i \in 1..Len(ts) |->
        IF ts[i].isAI
        THEN [ts[i] EXCEPT !.actions = generateAIActions(ts[i], ts),
                           !.turnSubmitted = TRUE]
        ELSE ts[i]]

\* the forEach of the handler: AI tribes still planning are back-filled
BackFill(ts) ==
    [i \in 1..Len(ts) |->
        IF ts[i].isAI /\ ~ts[i].turnSubmitted
        THEN [ts[i] EXCEPT !.actions = generateAIActions(ts[i], ts),
                           !.turnSubmitted = TRUE]
        ELSE ts[i]]

ResetTribe_KeepsLock(tribe) ==
    [tribe EXCEPT !.lastTurnResults = tribe.actions, !.actions = << >>]

ResetTribe_NoArchive(tribe) ==
    [tribe EXCEPT !.turnSubmitted = FALSE, !.actions = << >>]

\* newState.tribes.map(...): unlock, archive, clear
ResetTribe(tribe) ==
    [tribe EXCEPT !.turnSubmitted = FALSE,
                  !.lastTurnResults = tribe.actions,
                  !.actions = << >>]

\* newState.tribes.forEach(...): += on the object each tribe points at
RECURSIVE Accrue(_, _, _)
Accrue(ts, shared, i) ==
    IF i > Len(ts) THEN [tribes |-> ts, shared |-> shared]
    ELSE IF ts[i].globalResources.ref = "shared"
         THEN Accrue(ts, [shared EXCEPT !.food = @ + 5, !.scrap = @ + 2], i + 1)
         ELSE Accrue([ts EXCEPT ![i].globalResources.food = @ + 5,
                                ![i].globalResources.scrap = @ + 2], shared, i + 1)

PurgeExpired_Strict(proposals, newTurn) ==
    SelectSeq(proposals, LAMBDA proposal : proposal.expiresOnTurn > newTurn)

PurgeExpired_Late(proposals, newTurn) ==
    SelectSeq(proposals, LAMBDA proposal : proposal.expiresOnTurn >= newTurn - 1)

\* state.diplomaticProposals.filter(p => p.expiresOnTurn >= newTurn)
PurgeExpired(proposals, newTurn) ==
    SelectSeq(proposals, LAMBDA proposal : proposal.expiresOnTurn >= newTurn)

\* the filter callback reads proposal.expiresOnTurn: a TypeError on null
Throws(state) ==
    \E k \in 1..Len(state.diplomaticProposals) : IsNull(state.diplomaticProposals[k])

\* the tribe objects of `state` after the forEach ran on their copies: a
\* copy made by {...tribe} points at the same globalResources object
AccruedInPlace(ts, accrued) ==
    [i \in 1..Len(ts) |->
        [ts[i] EXCEPT !.globalResources = accrued[i].globalResources]]

\* the try block, and `return state` of the catch block when the filter throws
processGlobalTurn(state) ==
    LET newTurn == state.turn + 1
        reset == [i \in 1..Len(state.tribes) |-> ResetTribe(state.tribes[i])]
        acc == Accrue(reset, state.shared, 1)
    IN  IF Throws(state)
        THEN [state EXCEPT !.tribes = AccruedInPlace(state.tribes, acc.tribes),
                           !.shared = acc.shared]
        ELSE [state EXCEPT !.turn = newTurn,
                           !.tribes = acc.tribes,
                           !.shared = acc.shared,
                           !.diplomaticProposals =
                               PurgeExpired(state.diplomaticProposals, newTurn)]

process_turn ==
    LET newState == processGlobalTurn([World EXCEPT !.tribes = BackFill(tribes)])
    IN  /\ turn' = newState.turn
        /\ tribes' = newState.tribes
        /\ diplomaticProposals' = newState.diplomaticProposals
        /\ INITIAL_GLOBAL_RESOURCES' = newState.shared
        /\ emitted' = newState
        /\ alert' = ""
        /\ log' = IF Throws(World) THEN "Failed to process global turn" ELSE ""
        /\ submissions' = IF Throws(World) THEN submissions ELSE EmptyObject
        /\ purged' = SelectSeq(diplomaticProposals,
                            LAMBDA p : \A k \in 1..Len(newState.diplomaticProposals) :
                                           newState.diplomaticProposals[k] # p)
        /\ UNCHANGED <<startingLocations, now>>

\* ------------------------------------------------- createGenericHandler
\* updateLogic(gameState, users, payload); debouncedSave(); emitGameState()
Generic(newWorld, line) ==
    /\ turn' = newWorld.turn
    /\ tribes' = newWorld.tribes
    /\ diplomaticProposals' = newWorld.diplomaticProposals
    /\ startingLocations' = newWorld.startingLocations
    /\ INITIAL_GLOBAL_RESOURCES' = newWorld.shared
    /\ emitted' = newWorld
    /\ alert' = ""
    /\ log' = line
    /\ UNCHANGED <<now, submissions, purged>>

\* updateLogic throws after its assignments: the catch of
\* createGenericHandler logs and alerts, nothing is saved or broadcast
GenericThrows(newWorld) ==
    /\ turn' = newWorld.turn
    /\ tribes' = newWorld.tribes
    /\ diplomaticProposals' = newWorld.diplomaticProposals
    /\ startingLocations' = newWorld.startingLocations
    /\ INITIAL_GLOBAL_RESOURCES' = newWorld.shared
    /\ alert' = "An error occurred. Please try again."
    /\ log' = "Error in generic handler"
    /\ UNCHANGED <<now, emitted, submissions, purged>>

\* actionHandlers.update_tribe
ReplaceTribe(ts, updatedTribe) ==
    [i \in 1..Len(ts) |-> IF ts[i].id = updatedTribe.id THEN updatedTribe ELSE ts[i]]

update_tribe(updatedTribe) ==
    Generic([World EXCEPT !.tribes = ReplaceTribe(tribes, updatedTribe)],
            "")

\* actionHandlers.remove_player
remove_player(userId) ==
    Generic([World EXCEPT !.tribes = SelectSeq(tribes, LAMBDA t : t.playerId # userId)],
            "")

\* actionHandlers.start_new_game
start_new_game_NextRound ==
    Generic([World EXCEPT !.tribes = << >>, !.turn = turn + 1,
                          !.diplomaticProposals = << >>],
            "")

start_new_game ==
    Generic([World EXCEPT !.tribes = << >>, !.turn = 1,
                          !.diplomaticProposals = << >>],
            "")

\* actionHandlers.load_backup: the assignment is to the module's gameState;
\* users.length is read from backup.users and throws when the payload has none
load_backup(backup) ==
    LET loadedState == [backup.gameState EXCEPT !.shared = INITIAL_GLOBAL_RESOURCES]
    IN  IF "users" \in DOMAIN backup
        THEN Generic(loadedState, "")
        ELSE GenericThrows(loadedState)

\* actionHandlers.update_map: newMapData.length is read after the assignments
\* and throws when the payload has no newMapData
update_map(payload) ==
    LET updated == [World EXCEPT !.startingLocations = payload.newStartingLocations]
    IN  IF "newMapData" \in DOMAIN payload
        THEN Generic(updated, "")
        ELSE GenericThrows(updated)

\* actionHandlers.add_ai_tribe with generateAITribe
generateAITribe(startLocation) ==
    [id |-> <<"ai-tribe", now>>,
     playerId |-> <<"ai", now>>,
     isAI |-> TRUE,
     location |-> startLocation,
     globalResources |-> OwnRef(INITIAL_GLOBAL_RESOURCES),
     actions |-> << >>,
     turnSubmitted |-> FALSE,
     lastTurnResults |-> << >>,
     journeyResponses |-> << >>,
     diplomacy |-> EmptyObject]

AlwaysWar(ts) == [i \in 1..Len(ts) |-> War]

add_ai_tribe ==
    LET occupied == {tribes[i].location : i \in 1..Len(tribes)}
        k == AvailableStart(startingLocations, occupied)
    IN  IF k # 0
        THEN LET aiTribe == [generateAITribe(startingLocations[k]) EXCEPT
                                !.diplomacy = InitialDiplomacy(tribes, AlwaysWar(tribes))]
             IN  Generic([World EXCEPT !.tribes =
                             Append(WithEntryFor(tribes, aiTribe.id, AlwaysWar(tribes)), aiTribe)],
                         "")
        ELSE Generic(World, "Failed to add AI tribe: no available starting locations")

\* actionHandlers.propose_alliance / sue_for_peace
NewProposal(fromTribeId, toTribeId, statusChangeTo) ==
    [id |-> <<"proposal", now>>,
     fromTribeId |-> fromTribeId,
     toTribeId |-> toTribeId,
     statusChangeTo |-> statusChangeTo,
     expiresOnTurn |-> turn + 3]

\* if (fromTribe) state.diplomaticProposals.push({..})
Propose(fromTribeId, toTribeId, statusChangeTo) ==
    IF FindTribe(tribes, fromTribeId) # 0
    THEN Generic([World EXCEPT !.diplomaticProposals =
                     Append(@, NewProposal(fromTribeId, toTribeId, statusChangeTo))],
                 "")
    ELSE Generic(World, "")

propose_alliance(fromTribeId, toTribeId) ==
    /\ Len(diplomaticProposals) < MaxProposals
    /\ Propose(fromTribeId, toTribeId, Alliance)

sue_for_peace(fromTribeId, toTribeId) ==
    /\ Len(diplomaticProposals) < MaxProposals
    /\ Propose(fromTribeId, toTribeId, Neutral)

SetBoth_OneSide(ts, i, j, fromKey, toKey, status) ==
    [ts EXCEPT ![i].diplomacy = Put(@, toKey, [status |-> status])]

\* the two assignments fromTribe.diplomacy[to] = .. ; toTribe.diplomacy[from] = ..
SetBoth(ts, i, j, fromKey, toKey, status) ==
    LET first == [ts EXCEPT ![i].diplomacy = Put(@, toKey, [status |-> status])]
    IN  [first EXCEPT ![j].diplomacy = Put(@, fromKey, [status |-> status])]

\* actionHandlers.declare_war
declare_war(fromTribeId, toTribeId) ==
    LET i == FindTribe(tribes, fromTribeId)
        j == FindTribe(tribes, toTribeId)
    IN  IF i # 0 /\ j # 0
        THEN Generic([World EXCEPT !.tribes =
                         SetBoth(tribes, i, j, fromTribeId, toTribeId, War)],
                     "")
        ELSE Generic(World, "")

\* actionHandlers.accept_proposal
WithoutProposal(ps, proposalId) == SelectSeq(ps, LAMBDA p : p.id # proposalId)

accept_proposal(proposalId) ==
    LET k == FindProposal(diplomaticProposals, proposalId)
    IN  IF k = 0 THEN Generic(World, "")
        ELSE LET proposal == diplomaticProposals[k]
                 i == FindTribe(tribes, proposal.fromTribeId)
                 j == FindTribe(tribes, proposal.toTribeId)
             IN  IF i = 0 \/ j = 0 THEN Generic(World, "")
                 ELSE Generic([World EXCEPT
                          !.tribes = SetBoth(tribes, i, j, tribes[i].id, tribes[j].id,
                                             proposal.statusChangeTo),
                          !.diplomaticProposals =
                              WithoutProposal(diplomaticProposals, proposalId)],
                      "")

\* actionHandlers.reject_proposal
reject_proposal(proposalId) ==
    Generic([World EXCEPT !.diplomaticProposals =
                WithoutProposal(diplomaticProposals, proposalId)],
            "")

\* ------------------------------------------------------ command payloads
TribeIds == {tribes[i].id : i \in 1..Len(tribes)} \cup {UnknownTribeId}
AllTribeIds == {<<k, n>> : k \in {"tribe", "ai-tribe"}, n \in -1..MaxClock}
ProposalIds == {diplomaticProposals[i].id : i \in 1..Len(diplomaticProposals)}
               \cup {UnknownProposalId}

\* a tribe object as a client sends it back: its copy of the tribe, decoded
\* from JSON (so its resource pool is an object of its own), with the
\* diplomacy map and the turn fields as the client holds them
ClientCopy(t) == [t EXCEPT !.globalResources = OwnRef(GlobalResources(t, INITIAL_GLOBAL_RESOURCES))]

DiplomacyEdits(t) ==
    {[ClientCopy(t) EXCEPT !.diplomacy = d] :
        d \in [DOMAIN t.diplomacy -> [status : DIPLOMATIC_STATUS]]}

\* the copy is the current one, or the one from before the tribe's submission
TurnEdits(t) ==
    {ClientCopy(t),
     [ClientCopy(t) EXCEPT !.actions = << >>, !.turnSubmitted = FALSE]}

\* the commands of a client never name its own tribe as the other party
DiplomacyCommand ==
    \/ \E f \in TribeIds : \E t \in TribeIds \ {f} : declare_war(f, t)
    \/ \E f \in TribeIds : \E t \in TribeIds \ {f} : propose_alliance(f, t)
    \/ \E f \in TribeIds : \E t \in TribeIds \ {f} : sue_for_peace(f, t)
    \/ \E id \in ProposalIds : accept_proposal(id)
    \/ \E id \in ProposalIds : reject_proposal(id)

\* a further tribe is only asked for while the World holds fewer than
\* MaxTribes, or when no starting location is free
FreeStart ==
    \E k \in 1..Len(startingLocations) :
        \A i \in 1..Len(tribes) : tribes[i].location # startingLocations[k]
Room == Len(tribes) < MaxTribes \/ ~FreeStart

\* ------------------------------------------------ load_backup payloads
\* a tribe as a snapshot file holds it: its resources are an object of its own
BackupTribe ==
    [id |-> <<"ai-tribe", 0 - 1>>,
     playerId |-> <<"ai", 0 - 1>>,
     isAI |-> TRUE,
     location |-> Locations[1],
     globalResources |-> [ref |-> "own", food |-> 100, scrap |-> 20, morale |-> 50],
     actions |-> << >>,
     turnSubmitted |-> FALSE,
     lastTurnResults |-> << >>,
     journeyResponses |-> << >>,
     diplomacy |-> EmptyObject]

\* a snapshot of a later round
LaterBackup ==
    [gameState |-> WorldOf(3, <<BackupTribe>>, << >>, Locations,
                           [food |-> 100, scrap |-> 20, morale |-> 50]),
     users |-> << >>]

\* a snapshot file that holds the gameState only
BackupWithoutUsers ==
    [gameState |-> WorldOf(3, <<BackupTribe>>, << >>, Locations,
                           [food |-> 100, scrap |-> 20, morale |-> 50])]

\* a snapshot whose proposal list holds a null: the payload is stored as it
\* arrives, nothing validates it
MalformedBackup ==
    [gameState |-> WorldOf(1, <<BackupTribe>>, <<NullEntry>>, Locations,
                           [food |-> 100, scrap |-> 20, morale |-> 50]),
     users |-> << >>]

\* ------------------------------------------------ turn submission protocol
NextTurn ==
    \/ Tick /\ OffStage
    \/ Room /\ create_tribe([playerId |-> <<"user", 1>>]) /\ OffStage
    \/ Room /\ add_ai_tribe /\ OffStage
    \/ \E id \in AllTribeIds, a \in PlannedActions, j \in JourneyResponses :
           submit_turn(id, a, j) /\ OffStage
    \/ turn < MaxRound /\ process_turn /\ OffStage
    \/ \E i \in 1..Len(tribes) : \E u \in TurnEdits(tribes[i]) : update_tribe(u) /\ OffStage

SpecTurn == Init /\ [][NextTurn]_vars

\* the part of the state that is the World
world == <<turn, tribes, diplomaticProposals, startingLocations,
           INITIAL_GLOBAL_RESOURCES>>

\* C1: after a process_turn command the turn counter is exactly one greater
\* than before, the World holds the same tribes, and every one of them has
\* turnSubmitted = false, whatever the mix of human/AI and locked/unlocked
\* tribes before the command
C1_AdvanceAddsOneAndUnlocksAll ==
    [][process_turn =>
          /\ turn' = turn + 1
          /\ Len(tribes') = Len(tribes)
          /\ \A i \in 1..Len(tribes') :
                 /\ tribes'[i].id = tribes[i].id
                 /\ tribes'[i].turnSubmitted = FALSE]_vars

\* an advance has happened with a human tribe that had locked actions and an
\* AI tribe; all are unlocked again
C1_Witness ==
    /\ turn = 2
    /\ \E i, j \in 1..Len(tribes) :
           /\ tribes[i].isAI
           /\ ~tribes[j].isAI
           /\ tribes[j].lastTurnResults # << >>
    /\ \A i \in 1..Len(tribes) : ~tribes[i].turnSubmitted

C33_BackFillOnlyPlanningAI ==
    [][process_turn =>
          /\ turn' = turn + 1
          /\ log' = ""
          /\ \A i \in 1..Len(tribes) :
                 tribes'[i].lastTurnResults =
                     IF tribes[i].isAI /\ ~tribes[i].turnSubmitted
                     THEN generateAIActions(tribes[i], tribes)
                     ELSE tribes[i].actions]_vars

\* an advance went through with an AI tribe that had submitted, whose plan
\* was kept, and a human tribe that had not
C33_Witness ==
    /\ turn = 2
    /\ \E i, j \in 1..Len(tribes) :
           /\ tribes[i].isAI /\ tribes[i].lastTurnResults \in PlannedActions
           /\ ~tribes[j].isAI /\ tribes[j].lastTurnResults = << >>
           /\ ~tribes[j].turnSubmitted /\ tribes[j].actions = << >>

\* C34: a successful advance adds exactly 5 food and 2 scrap to the pool of
\* every tribe and leaves its morale, however many tribes there are and
\* however they were created
C34_AccrualIsPerTribe ==
    [][(process_turn /\ log' = "") =>
          \A i \in 1..Len(tribes) :
              LET before == GlobalResources(tribes[i], INITIAL_GLOBAL_RESOURCES)
                  after == GlobalResources(tribes'[i], INITIAL_GLOBAL_RESOURCES')
              IN  /\ after.food = before.food + 5
                  /\ after.scrap = before.scrap + 2
                  /\ after.morale = before.morale]_vars

\* C8: create_tribe issued while every starting location is the location of
\* some tribe changes nothing in the World (no tribe added, no diplomacy map
\* touched) and sends the caller the no-available-start alert
C8_CreateWhenFullIsNoOp ==
    [][\A u \in UserIds :
          (create_tribe([playerId |-> u]) /\ ~FreeStart) =>
              /\ UNCHANGED world
              /\ alert' = "No available starting locations."]_vars

C8_Witness ==
    /\ alert = "No available starting locations."
    /\ Len(tribes) = NumStart
    /\ ~FreeStart

\* C9: submit_turn with a tribeId that matches no tribe leaves the whole
\* World unchanged
C9_UnknownTribeSubmitChangesNothing ==
    [][\A id \in AllTribeIds, a \in PlannedActions, j \in JourneyResponses :
          (submit_turn(id, a, j) /\ \A i \in 1..Len(tribes) : tribes[i].id # id) =>
              UNCHANGED world]_vars

\* the rejected submission happened in a World that holds a tribe
C9_Witness ==
    /\ log = "Turn submission attempted for non-existent tribe"
    /\ Len(tribes) > 0

NextExpiry ==
    \/ Tick /\ OffStage
    \/ Room /\ create_tribe([playerId |-> <<"user", 1>>]) /\ OffStage
    \/ Room /\ add_ai_tribe /\ OffStage
    \/ \E f \in TribeIds : \E t \in TribeIds \ {f} : propose_alliance(f, t) /\ OffStage
    \/ \E f \in TribeIds : \E t \in TribeIds \ {f} : sue_for_peace(f, t) /\ OffStage
    \/ \E id \in ProposalIds : accept_proposal(id) /\ OffStage
    \/ \E id \in ProposalIds : reject_proposal(id) /\ OffStage
    \/ \E f \in TribeIds : \E t \in TribeIds \ {f} : declare_war(f, t) /\ OffStage
    \/ turn < MaxTurn /\ process_turn /\ OffStage

SpecExpiry == Init /\ [][NextExpiry]_vars

\* the diplomacy maps of the tribes, in the order of the tribe list
Relations(ts) == [i \in 1..Len(ts) |-> ts[i].diplomacy]

Contains(ps, p) == \E k \in 1..Len(ps) : ps[k] = p

\* C4: propose_alliance and sue_for_peace at turn T append one proposal with
\* expiresOnTurn = T + 3 and leave every relation as it was; a proposal in
\* the World was made at most three turns ago; an advance keeps every
\* proposal whose expiry is not below the new turn (so up to and including
\* turn T + 3), drops it at the advance that makes the turn T + 4, and
\* changes no relation
C4_ProposalLivesThreeTurns ==
    /\ [](\A k \in 1..Len(diplomaticProposals) :
              /\ diplomaticProposals[k].expiresOnTurn >= turn
              /\ diplomaticProposals[k].expiresOnTurn <= turn + 3)
    /\ [][\A f \in TribeIds : \A t \in TribeIds \ {f} :
              ((propose_alliance(f, t) \/ sue_for_peace(f, t))
                   /\ \E i \in 1..Len(tribes) : tribes[i].id = f) =>
                  /\ Len(diplomaticProposals') = Len(diplomaticProposals) + 1
                  /\ diplomaticProposals'[Len(diplomaticProposals')].expiresOnTurn
                         = turn + 3
                  /\ Relations(tribes') = Relations(tribes)]_vars
    /\ [][process_turn =>
              /\ \A k \in 1..Len(diplomaticProposals) :
                     LET T == diplomaticProposals[k].expiresOnTurn - 3
                     IN  Contains(diplomaticProposals', diplomaticProposals[k])
                             <=> turn' <= T + 3
              /\ Relations(tribes') = Relations(tribes)]_vars

\* a proposal made at turn 1 has lived through three advances and is still
\* pending at turn 4, between two human tribes that are still Neutral
C4_Witness ==
    /\ turn = 4
    /\ \E k \in 1..Len(diplomaticProposals) :
           /\ diplomaticProposals[k].expiresOnTurn = 4
           /\ \E i, j \in 1..Len(tribes) :
                  /\ tribes[i].id = diplomaticProposals[k].fromTribeId
                  /\ tribes[j].id = diplomaticProposals[k].toTribeId
                  /\ ~tribes[i].isAI /\ ~tribes[j].isAI
                  /\ tribes[i].diplomacy[tribes[j].id].status = Neutral
                  /\ tribes[j].diplomacy[tribes[i].id].status = Neutral

\* C5: right after an advance no proposal of the World has an expiresOnTurn
\* below the new turn, the proposals that went are exactly those, and the
\* advance changes no tribe's diplomacy map
C5_NoExpiredProposalAfterAdvance ==
    [][process_turn =>
          /\ \A k \in 1..Len(diplomaticProposals') :
                 diplomaticProposals'[k].expiresOnTurn >= turn'
          /\ \A k \in 1..Len(diplomaticProposals) :
                 diplomaticProposals[k].expiresOnTurn < turn' =>
                     ~Contains(diplomaticProposals', diplomaticProposals[k])
          /\ Relations(tribes') = Relations(tribes)]_vars

\* the last advance dropped a proposal, one that had run out
C5_Witness ==
    /\ Len(purged) > 0
    /\ \A k \in 1..Len(purged) : purged[k].expiresOnTurn < turn
    /\ Len(tribes) > 1

\* C6: declare_war naming two tribes of the World leaves both tribes' status
\* toward the other at War in the state the command ends in, which is the
\* state the broadcast carries, and leaves the proposals as they were
C6_DeclareWarSetsBothSides ==
    [][\A f \in TribeIds : \A t \in TribeIds \ {f} :
          LET i == First(WithId(tribes, f))
              j == First(WithId(tribes, t))
          IN  (declare_war(f, t) /\ i # 0 /\ j # 0) =>
                  /\ tribes'[i].diplomacy[t].status = War
                  /\ tribes'[j].diplomacy[f].status = War
                  /\ emitted'.tribes = tribes'
                  /\ emitted'.diplomaticProposals = diplomaticProposals'
                  /\ diplomaticProposals' = diplomaticProposals]_vars

\* two human tribes, Neutral when the second joined, are at War both ways,
\* a proposal is still pending, and the broadcast shows this state
C6_Witness ==
    /\ \E i, j \in 1..Len(tribes) :
           /\ tribes[i].id # tribes[j].id
           /\ ~tribes[i].isAI /\ ~tribes[j].isAI
           /\ tribes[i].diplomacy[tribes[j].id].status = War
           /\ tribes[j].diplomacy[tribes[i].id].status = War
    /\ Len(diplomaticProposals) > 0
    /\ emitted.tribes = tribes

\* ------------------------------------------------------- diplomacy engine
Next ==
    \/ Tick /\ OffStage
    \/ Len(tribes) < MaxTribes /\ create_tribe([playerId |-> <<"user", 1>>]) /\ OffStage
    \/ Len(tribes) < MaxTribes /\ add_ai_tribe /\ OffStage
    \/ \E u \in UserIds : remove_player(u) /\ OffStage
    \/ turn < MaxRound /\ start_new_game /\ OffStage
    \/ DiplomacyCommand /\ OffStage
    \/ turn < MaxRound /\ process_turn /\ OffStage
    \/ \E i \in 1..Len(tribes) : \E u \in DiplomacyEdits(tribes[i]) : update_tribe(u) /\ OffStage

Spec == Init /\ [][Next]_vars

\* the status tribe number i records toward the tribe with the id given
StatusToward(ts, i, id) ==
    IF id \in DOMAIN ts[i].diplomacy THEN ts[i].diplomacy[id].status ELSE "none"

\* C3: in every reachable state, any two tribes of the World with different
\* ids record the same status toward each other
C3_DiplomacySymmetric ==
    \A i, j \in 1..Len(tribes) :
        tribes[i].id # tribes[j].id =>
            StatusToward(tribes, i, tribes[j].id) = StatusToward(tribes, j, tribes[i].id)

\* C24: when a tribe joins the World, by add_ai_tribe or by create_tribe, it
\* and every tribe already there record War toward each other if either of
\* the two is an AI tribe
C24_AIStartsAtWar ==
    [][Len(tribes') = Len(tribes) + 1 =>
          LET new == tribes'[Len(tribes')]
          IN  \A i \in 1..Len(tribes) :
                  (new.isAI \/ tribes[i].isAI) =>
                      /\ StatusToward(tribes', Len(tribes'), tribes[i].id) = War
                      /\ StatusToward(tribes', i, new.id) = War]_vars

\* a human tribe has been created after an AI tribe and the two are at war
C24_Witness ==
    /\ Len(tribes) = 2
    /\ tribes[1].isAI /\ ~tribes[2].isAI
    /\ StatusToward(tribes, 1, tribes[2].id) = War
    /\ StatusToward(tribes, 2, tribes[1].id) = War
    /\ emitted.tribes = tribes
    /\ diplomaticProposals = << >>

\* both tribes a proposal names are in the World
Live(proposal, ts) ==
    /\ FindTribe(ts, proposal.fromTribeId) # 0
    /\ FindTribe(ts, proposal.toTribeId) # 0

\* C28: every command leaves only proposals whose source and target tribe
\* are both in the World; accepting a proposal that names a tribe no longer
\* there changes no relation; and an advance leaves no such proposal behind,
\* whatever its expiry turn
C28_ProposalsNameLiveTribes ==
    [][/\ \A k \in 1..Len(diplomaticProposals') :
              Live(diplomaticProposals'[k], tribes')
       /\ \A id \in ProposalIds :
              (/\ accept_proposal(id)
               /\ FindProposal(diplomaticProposals, id) # 0
               /\ ~Live(diplomaticProposals[FindProposal(diplomaticProposals, id)], tribes))
              => tribes' = tribes
       /\ process_turn =>
              \A k \in 1..Len(diplomaticProposals') :
                  Live(diplomaticProposals'[k], tribes')]_vars

\* C7: accept_proposal on a pending proposal whose two tribes are in the
\* World sets both tribes' status toward each other to the proposal's
\* target and removes the proposal; and whenever a tribe's recorded status
\* toward another tribe of the World changes to Alliance or to Neutral, the
\* step is such an acceptance
C7_PeaceOnlyByAcceptance ==
    [][/\ \A id \in ProposalIds :
             LET k == First(WithId(diplomaticProposals, id))
                 i == First(WithId(tribes, diplomaticProposals[k].fromTribeId))
                 j == First(WithId(tribes, diplomaticProposals[k].toTribeId))
             IN  (accept_proposal(id) /\ k # 0 /\ i # 0 /\ j # 0) =>
                     /\ tribes'[i].diplomacy[tribes[j].id].status
                            = diplomaticProposals[k].statusChangeTo
                     /\ tribes'[j].diplomacy[tribes[i].id].status
                            = diplomaticProposals[k].statusChangeTo
                     /\ \A n \in 1..Len(diplomaticProposals') :
                            diplomaticProposals'[n].id # id
       /\ \A i, j \in 1..Len(tribes) :
             (/\ Len(tribes') = Len(tribes)
              /\ tribes'[i].id = tribes[i].id
              /\ tribes'[j].id = tribes[j].id
              /\ tribes[i].id # tribes[j].id
              /\ StatusToward(tribes', i, tribes[j].id) \in {Alliance, Neutral}
              /\ StatusToward(tribes', i, tribes[j].id)
                     # StatusToward(tribes, i, tribes[j].id)) =>
                 \E k \in 1..Len(diplomaticProposals) :
                     /\ accept_proposal(diplomaticProposals[k].id)
                     /\ {diplomaticProposals[k].fromTribeId,
                         diplomaticProposals[k].toTribeId}
                            = {tribes[i].id, tribes[j].id}
                     /\ diplomaticProposals[k].statusChangeTo
                            = StatusToward(tribes', i, tribes[j].id)]_vars

\* ------------------------------------------------ restoring a snapshot
\* every command of the diplomacy engine, and load_backup
NextRestore ==
    \/ Tick /\ OffStage
    \/ Len(tribes) < MaxTribes /\ create_tribe([playerId |-> <<"user", 1>>]) /\ OffStage
    \/ Len(tribes) < MaxTribes /\ add_ai_tribe /\ OffStage
    \/ \E u \in UserIds : remove_player(u) /\ OffStage
    \/ turn < MaxRound /\ start_new_game /\ OffStage
    \/ DiplomacyCommand /\ OffStage
    \/ turn < MaxRound /\ process_turn /\ OffStage
    \/ \E i \in 1..Len(tribes) : \E u \in DiplomacyEdits(tribes[i]) : update_tribe(u) /\ OffStage
    \/ load_backup(LaterBackup) /\ OffStage

SpecRestore == Init /\ [][NextRestore]_vars

\* C12 as stated: a step that leaves the turn counter larger than it was is
\* a process_turn command
C12_OnlyAdvanceRaisesTurn ==
    [][turn' > turn => process_turn]_vars

\* C12 as the code has it: a step that leaves the turn counter larger than it
\* was is a process_turn command, which adds exactly one, or a load_backup
\* command, which installs the counter of the snapshot
C12_OnlyAdvanceOrRestoreRaisesTurn ==
    [][turn' > turn =>
          \/ process_turn /\ turn' = turn + 1
          \/ load_backup(LaterBackup)]_vars

\* a snapshot of round 3 has been loaded, and a later command has put a
\* second tribe into the restored World without moving the counter
C12_Witness ==
    /\ turn = 3
    /\ Len(tribes) = 2
    /\ tribes[1].id = BackupTribe.id

\* ------------------------------------------------ a failing advance
\* the commands that never read the fields of a proposal, over a World that
\* a malformed snapshot may have replaced, all within one clock value
NextFailure ==
    \/ Room /\ create_tribe([playerId |-> <<"user", 1>>]) /\ OffStage
    \/ Room /\ add_ai_tribe /\ OffStage
    \/ \E id \in AllTribeIds, a \in PlannedActions, j \in JourneyResponses :
           submit_turn(id, a, j) /\ OffStage
    \/ load_backup(MalformedBackup) /\ OffStage
    \/ /\ turn < MaxRound
       /\ \A i \in 1..Len(tribes) :
              GlobalResources(tribes[i], INITIAL_GLOBAL_RESOURCES).food < MaxFood
       /\ process_turn
       /\ OffStage

SpecFailure == Init /\ [][NextFailure]_vars

\* C11: an advance that fails inside processGlobalTurn leaves the World as it
\* was before the command (turn, every tribe's actions, turnSubmitted,
\* lastTurnResults and resources, and the proposals)
C11_FailedAdvanceChangesNothing ==
    [][process_turn /\ log' = "Failed to process global turn" => UNCHANGED world]_vars

\* --------------------------------------------------------------- the store
\* which file operation of a save fails: none; copyFileSync, leaving the
\* backup as it was or torn; writeFileSync, leaving a torn temporary file;
\* renameSync
Faults == {"none", "copy", "copyTorn", "write", "rename"}

Disk(primary, backup, temp) ==
    [DATA_FILE |-> primary, BACKUP_FILE |-> backup, tempPath |-> temp]

\* fs.writeFileSync straight onto the target
writeFile_InPlace(file, data, fault) ==
    IF fault = "write"
    THEN [steps |-> <<[file |-> Garbage, temp |-> Missing]>>, success |-> FALSE]
    ELSE [steps |-> <<[file |-> Json(data), temp |-> Missing]>>, success |-> TRUE]

\* writeFileSafely: the target and the temporary file after each operation
\* (write then rename, or write then unlink, or rename then unlink)
writeFileSafely(file, data, fault) ==
    IF fault = "write"
    THEN [steps |-> <<[file |-> file, temp |-> Garbage],
                      [file |-> file, temp |-> Missing]>>, success |-> FALSE]
    ELSE IF fault = "rename"
    THEN [steps |-> <<[file |-> file, temp |-> Json(data)],
                      [file |-> file, temp |-> Missing]>>, success |-> FALSE]
    ELSE [steps |-> <<[file |-> file, temp |-> Json(data)],
                      [file |-> Json(data), temp |-> Missing]>>, success |-> TRUE]

\* the backup file when the copy is made once the new content is in place
CopyAfterWrite(primary, backup, written, fault) ==
    IF written.kind = "missing" \/ fault = "copy" THEN backup
    ELSE IF fault = "copyTorn" THEN Garbage
    ELSE written

\* the backup file after `if (existsSync(DATA_FILE)) copyFileSync(..)`
CopyBeforeWrite(primary, backup, written, fault) ==
    IF primary.kind = "missing" \/ fault = "copy" THEN backup
    ELSE IF fault = "copyTorn" THEN Garbage
    ELSE primary

\* saveData(); shuttingDown is the value of isShuttingDown on entry.
\* saveInProgress is false whenever a handler starts, since saveData is
\* synchronous and resets it before returning: that guard never fires.
saveData(shuttingDown, jsonData, fault) ==
    IF shuttingDown
    THEN /\ saveLog' = <<"Skipping save during shutdown">>
         /\ saveTrace' = << >>
         /\ UNCHANGED <<DATA_FILE, BACKUP_FILE, tempPath, faults>>
    ELSE LET w == writeFileSafely(DATA_FILE, jsonData, fault)
             last == w.steps[Len(w.steps)]
             copied == CopyBeforeWrite(DATA_FILE, BACKUP_FILE, last.file, fault)
         IN  /\ DATA_FILE' = last.file
             /\ BACKUP_FILE' = copied
             /\ tempPath' = last.temp
             /\ saveTrace' = <<Disk(DATA_FILE, BACKUP_FILE, tempPath),
                               Disk(DATA_FILE, copied, tempPath)>>
                             \o [k \in 1..Len(w.steps) |->
                                    Disk(w.steps[k].file, copied, w.steps[k].temp)]
             /\ saveLog' =
                    (IF DATA_FILE.kind # "missing" /\ fault \in {"copy", "copyTorn"}
                     THEN <<"Failed to create backup file">> ELSE << >>)
                    \o (IF w.success THEN <<"Game data saved successfully">>
                        ELSE <<"Failed to save game data">>)
             /\ faults' = IF fault = "none" THEN faults ELSE faults + 1

\* clearTimeout(saveTimeout): the callback the handle names is dropped
Cleared == IF saveTimeout /\ timers > 0 THEN timers - 1 ELSE timers

\* a debouncedSave that does not clear the pending timer
debouncedSave_NoClear(immediate, shuttingDown, jsonData, fault) ==
    IF immediate
    THEN /\ timers' = timers
         /\ saveData(shuttingDown, jsonData, fault)
         /\ requests' = 0
         /\ UNCHANGED <<saveTimeout, coalesced>>
    ELSE /\ timers' = timers + 1
         /\ saveTimeout' = TRUE
         /\ requests' = requests + 1
         /\ UNCHANGED <<DATA_FILE, BACKUP_FILE, tempPath, saveTrace, saveLog,
                        coalesced, faults>>

\* a debouncedSave that clears the pending timer and sets no new one
debouncedSave_NoRearm(immediate, shuttingDown, jsonData, fault) ==
    IF immediate
    THEN /\ timers' = Cleared
         /\ saveData(shuttingDown, jsonData, fault)
         /\ requests' = 0
         /\ UNCHANGED <<saveTimeout, coalesced>>
    ELSE /\ timers' = IF saveTimeout /\ timers > 0 THEN Cleared ELSE Cleared + 1
         /\ saveTimeout' = TRUE
         /\ requests' = requests + 1
         /\ UNCHANGED <<DATA_FILE, BACKUP_FILE, tempPath, saveTrace, saveLog,
                        coalesced, faults>>

\* debouncedSave(immediate)
debouncedSave(immediate, shuttingDown, jsonData, fault) ==
    IF immediate
    THEN /\ timers' = Cleared
         /\ saveData(shuttingDown, jsonData, fault)
         /\ requests' = 0
         /\ UNCHANGED <<saveTimeout, coalesced>>
    ELSE /\ timers' = Cleared + 1
         /\ saveTimeout' = TRUE
         /\ requests' = requests + 1
         /\ UNCHANGED <<DATA_FILE, BACKUP_FILE, tempPath, saveTrace, saveLog,
                        coalesced, faults>>

\* the callback given to setTimeout: saveData(); saveTimeout = null
TimerFires(fault) ==
    /\ ~exited
    /\ timers > 0
    /\ timers' = timers - 1
    /\ saveData(isShuttingDown, Stringify(World, users), fault)
    /\ saveTimeout' = FALSE
    /\ coalesced' = requests
    /\ requests' = 0
    /\ UNCHANGED <<turn, tribes, diplomaticProposals, startingLocations,
                   INITIAL_GLOBAL_RESOURCES, now, emitted, alert, log, submissions,
                   purged, hexVars, sideVars, users, isShuttingDown, exited, loaded>>

\* the World and the users a handler leaves behind, as saveData reads them
WorldAfter ==
    WorldOf(turn', tribes', diplomaticProposals', startingLocations',
            INITIAL_GLOBAL_RESOURCES')

\* a handler's call debouncedSave()
Debounced ==
    debouncedSave(FALSE, isShuttingDown, Stringify(WorldAfter, users'), "none")

\* a handler's call debouncedSave(true)
Immediate(fault) ==
    debouncedSave(TRUE, isShuttingDown, Stringify(WorldAfter, users'), fault)

\* a handler that returns before it reaches debouncedSave
NoSave ==
    UNCHANGED <<DATA_FILE, BACKUP_FILE, tempPath, saveTimeout, timers, saveTrace,
                saveLog, requests, coalesced, faults>>

\* what no socket handler assigns
Serving == UNCHANGED <<hexVars, sideVars, isShuttingDown, exited, loaded>>

\* socket.on('register')
register(username) ==
    /\ IF \E k \in 1..Len(users) : users[k] = username
       THEN UNCHANGED users /\ NoSave
       ELSE users' = Append(users, username) /\ Debounced
    /\ UNCHANGED <<turn, tribes, diplomaticProposals, startingLocations,
                   INITIAL_GLOBAL_RESOURCES, now, emitted, alert, log, submissions,
                   purged>>

\* gracefulShutdown(signal): the flag is set before saveData is called
gracefulShutdown ==
    /\ ~exited
    /\ ~isShuttingDown
    /\ isShuttingDown' = TRUE
    /\ saveData(TRUE, Stringify(World, users), "none")
    /\ UNCHANGED <<turn, tribes, diplomaticProposals, startingLocations,
                   INITIAL_GLOBAL_RESOURCES, now, emitted, alert, log, submissions,
                   purged, hexVars, sideVars, users, saveTimeout, timers, exited, loaded,
                   requests, coalesced>>

\* process.exit(0), from the close callbacks or the 5 s timer
Exit ==
    /\ isShuttingDown
    /\ ~exited
    /\ exited' = TRUE
    /\ UNCHANGED <<turn, tribes, diplomaticProposals, startingLocations,
                   INITIAL_GLOBAL_RESOURCES, now, emitted, alert, log, submissions,
                   purged, hexVars, sideVars, users, DATA_FILE, BACKUP_FILE, tempPath,
                   saveTimeout, timers, isShuttingDown, loaded, saveTrace, saveLog,
                   requests, coalesced, faults>>

Usernames == {"Admin", "ada"}

\* commands with their saves, the save timer, failing file operations and
\* shutdown
NextSave ==
    \/ /\ ~exited /\ requests < MaxRequests
       /\ create_tribe([playerId |-> <<"user", 1>>])
       /\ UNCHANGED users
       /\ IF alert' = "" THEN Debounced ELSE NoSave
       /\ Serving
    \/ /\ ~exited /\ requests < MaxRequests
       /\ \E id \in TribeIds : submit_turn(id, <<"Move">>, <<"accept">>)
       /\ UNCHANGED users
       /\ IF log' = "" THEN Debounced ELSE NoSave
       /\ Serving
    \/ /\ ~exited /\ turn < MaxRound
       /\ process_turn
       /\ UNCHANGED users
       /\ \E fault \in Faults :
              /\ fault # "none" => faults < MaxFaults
              /\ Immediate(fault)
       /\ Serving
    \/ /\ ~exited /\ requests < MaxRequests
       /\ \E username \in Usernames : register(username)
       /\ Serving
    \/ \E fault \in Faults :
           /\ fault # "none" => faults < MaxFaults
           /\ TimerFires(fault)
    \/ gracefulShutdown
    \/ Exit

SpecSave == Init /\ [][NextSave]_vars

Logged(line) == \E k \in 1..Len(saveLog) : saveLog[k] = line

\* the primary file holds what memory holds now
Saved == DATA_FILE = Json(Stringify(World, users))

\* C13: at every point of every save, a failing write or rename included,
\* the primary file holds either the complete content it had before the save
\* or the complete new content; after a failed save it holds what it held
\* before; and the content a successful save leaves is the state in memory
C13_PrimaryNeverTorn ==
    /\ [](/\ DATA_FILE.kind = "json"
          /\ \A k \in 1..Len(saveTrace) :
                 /\ saveTrace[k].DATA_FILE.kind = "json"
                 /\ saveTrace[k].DATA_FILE \in {saveTrace[1].DATA_FILE, DATA_FILE}
          /\ Logged("Failed to save game data") =>
                 DATA_FILE = saveTrace[1].DATA_FILE)
    /\ [][(saveTrace' # saveTrace /\ Logged("Game data saved successfully")') =>
              Saved']_vars

\* a write has failed on a torn temporary file, which was removed; the
\* primary file is as before the save and differs from memory
C13_Witness ==
    /\ Logged("Failed to save game data")
    /\ Len(saveTrace) = 4
    /\ saveTrace[3].tempPath = Garbage
    /\ tempPath = Missing
    /\ DATA_FILE = saveTrace[1].DATA_FILE
    /\ ~Saved

\* C14: when a save runs while the primary file exists and the copy does not
\* fail, the backup holds the primary's pre-save content from before the
\* primary is overwritten until the end of the save; when the copy fails the
\* save still writes the primary
C14_BackupHoldsPrecedingGeneration ==
    (Len(saveTrace) > 0 /\ saveTrace[1].DATA_FILE.kind # "missing") =>
        /\ ~Logged("Failed to create backup file") =>
               /\ \A k \in 2..Len(saveTrace) :
                      saveTrace[k].BACKUP_FILE = saveTrace[1].DATA_FILE
               /\ BACKUP_FILE = saveTrace[1].DATA_FILE
        /\ Logged("Failed to create backup file") =>
               /\ Logged("Game data saved successfully")
               /\ saveTrace[3].tempPath.kind = "json"
               /\ DATA_FILE = saveTrace[3].tempPath

\* a successful save has replaced the primary by different content and the
\* backup holds the content replaced
C14_Witness ==
    /\ Logged("Game data saved successfully")
    /\ ~Logged("Failed to create backup file")
    /\ BACKUP_FILE = saveTrace[1].DATA_FILE
    /\ BACKUP_FILE.kind = "json"
    /\ DATA_FILE # BACKUP_FILE

\* C16: while the server is not shutting down, debouncedSave() calls that
\* follow each other before the timer fires leave one timer and write
\* nothing, and the timer, when it fires and the write succeeds, makes one
\* save whose content is the state in memory at that moment
C16_BurstWritesOnce ==
    /\ [](timers <= 1)
    /\ [][requests' > requests =>
              /\ timers' = 1
              /\ UNCHANGED <<DATA_FILE, BACKUP_FILE, tempPath>>]_vars
    /\ [][(TimerFires("none") /\ ~isShuttingDown) =>
              /\ DATA_FILE' = Json(Stringify(World, users))
              /\ Len(saveTrace') = 4
              /\ timers' = 0]_vars

\* the timer has fired after two calls of debouncedSave() and its one save
\* holds the two users now in memory
C16_Witness ==
    /\ coalesced = 2
    /\ requests = 0
    /\ timers = 0
    /\ Logged("Game data saved successfully")
    /\ Len(users) = 2
    /\ Saved

\* C17: the shutdown handler performs a final save that writes the World
\* and the users of that moment to the primary file
C17_ShutdownSaves ==
    [][gracefulShutdown => DATA_FILE' = Json(Stringify(World, users))]_vars

\* C30: once shutdown has begun no command changes the World, and the
\* primary file holds the World of the moment the process exits
C30_ShutdownFreezesWorld ==
    [][/\ isShuttingDown => UNCHANGED world
       /\ exited' => Saved']_vars

\* C19: after a save whose write failed, while the server keeps running and
\* memory differs from the primary file, a timer for a further save is pending
C19_FailedSaveIsRetried ==
    (/\ Logged("Failed to save game data")
     /\ ~isShuttingDown
     /\ ~Saved) => timers > 0

\* ------------------------------------------------ loadData at start-up
\* what loadData assigns, from the two files it finds, and whether it saves
loadData(primary, backup) ==
    LET fresh == [gameState |-> Shaped("world", Plain(getDefaultGameState)),
                  users |-> Shaped("array", << >>), save |-> FALSE]
        seeded == [gameState |-> Shaped("world", Plain(getDefaultGameState)),
                   users |-> Shaped("array", AdminOnly), save |-> TRUE]
        fromBackup ==
            IF backup.kind = "missing" THEN fresh
            ELSE IF backup.kind = "garbage" THEN fresh
            ELSE [gameState |-> backup.doc.gameState, users |-> backup.doc.users,
                  save |-> FALSE]
    IN  IF primary.kind = "missing" THEN seeded
        ELSE IF primary.kind = "garbage" THEN fromBackup
        ELSE IF \/ primary.doc.gameState.shape = "undefined"
                \/ primary.doc.users.shape = "undefined" THEN fromBackup
        ELSE IF primary.doc.gameState.shape = "noTribes" THEN fromBackup
        ELSE [gameState |-> primary.doc.gameState, users |-> primary.doc.users,
              save |-> FALSE]

\* the gameState and users values a file may hold
GameStates ==
    {Shaped("undefined", Plain(getDefaultGameState)),
     Shaped("noTribes", Plain(getDefaultGameState)),
     Shaped("world", Plain(getDefaultGameState)),
     Shaped("world", Plain(LaterBackup.gameState))}
UserLists ==
    {Shaped("undefined", << >>), Shaped("array", << >>), Shaped("array", AdminOnly)}

\* the conditions of a file: missing, unparsable, parsable with or without
\* each of the two fields
Files ==
    {Missing, Garbage}
    \cup {Json([gameState |-> g, users |-> u]) : g \in GameStates, u \in UserLists}

\* the process starts on whatever the disk holds
InitLoad ==
    /\ InitGame
    /\ InitMap
    /\ users = << >>
    /\ DATA_FILE \in Files
    /\ BACKUP_FILE \in Files
    /\ tempPath = Missing
    /\ saveTimeout = FALSE
    /\ timers = 0
    /\ isShuttingDown = FALSE
    /\ exited = FALSE
    /\ loaded = Loaded(FALSE, NoDoc)
    /\ saveTrace = << >>
    /\ saveLog = << >>
    /\ requests = 0
    /\ coalesced = 0
    /\ faults = 0

\* the call loadData() of the module body, with its debouncedSave(true)
StartUp(fault) ==
    LET r == loadData(DATA_FILE, BACKUP_FILE)
        doc == [gameState |-> r.gameState, users |-> r.users]
    IN  /\ ~loaded.done
        /\ loaded' = Loaded(TRUE, doc)
        /\ users' = r.users.value
        /\ IF r.save
           THEN debouncedSave(TRUE, isShuttingDown, doc, fault)
           ELSE NoSave
        /\ UNCHANGED <<turn, tribes, diplomaticProposals, startingLocations,
                       INITIAL_GLOBAL_RESOURCES, now, emitted, alert, log,
                       submissions, purged, hexVars, sideVars, isShuttingDown, exited>>

NextLoad == \E fault \in Faults : StartUp(fault)

SpecLoad == InitLoad /\ [][NextLoad]_vars

\* C15: whatever the primary and the backup file hold, once loadData has run
\* gameState is a World with tribes and a turn of at least 1, and users is
\* a list
C15_LoadLeavesUsableState ==
    loaded.done =>
        /\ loaded.gameState.shape = "world"
        /\ loaded.gameState.value.turn >= 1
        /\ loaded.users.shape = "array"

\* ------------------------------------------------ the store, left running
\* the commands and the save timer: every write succeeds, no shutdown
NextSettle ==
    \/ /\ requests < MaxRequests
       /\ create_tribe([playerId |-> <<"user", 1>>])
       /\ UNCHANGED users
       /\ IF alert' = "" THEN Debounced ELSE NoSave
       /\ Serving
    \/ /\ requests < MaxRequests
       /\ \E id \in TribeIds : submit_turn(id, <<"Move">>, <<"accept">>)
       /\ UNCHANGED users
       /\ IF log' = "" THEN Debounced ELSE NoSave
       /\ Serving
    \/ /\ turn < MaxRound
       /\ process_turn
       /\ UNCHANGED users
       /\ Immediate("none")
       /\ Serving
    \/ /\ requests < MaxRequests
       /\ \E username \in Usernames : register(username)
       /\ Serving
    \/ /\ requests < MaxRequests /\ turn < MaxRound
       /\ start_new_game
       /\ UNCHANGED users /\ Debounced /\ Serving
    \/ TimerFires("none")

\* the timer callback runs once the event loop has been idle for the delay
SpecSettle == Init /\ [][NextSettle]_vars /\ WF_vars(TimerFires("none"))

Digit == <<"0", "1", "2", "3", "4", "5", "6", "7", "8", "9">>

RECURSIVE Digits(_)
Digits(n) ==
    IF n < 10 THEN <<Digit[n + 1]>>
    ELSE Digits(n \div 10) \o <<Digit[(n % 10) + 1]>>

\* Number.prototype.toString of an integer
toString(n) == IF n < 0 THEN <<"-">> \o Digits(0 - n) ELSE Digits(n)

\* String.prototype.padStart
PadStart(str, targetLength, padChar) ==
    IF Len(str) >= targetLength THEN str
    ELSE [i \in 1..(targetLength - Len(str)) |-> padChar] \o str

\* `${q.toString().padStart(3, '0')}.${r.toString().padStart(3, '0')}`
HexKey(q, r) ==
    PadStart(toString(q), 3, "0") \o <<".">> \o PadStart(toString(r), 3, "0")

\* String.prototype.split on a one-character separator
RECURSIVE Split(_, _)
Split(str, sep) ==
    IF \A i \in 1..Len(str) : str[i] # sep THEN <<str>>
    ELSE LET k == Min({i \in 1..Len(str) : str[i] = sep})
         IN  <<SubSeq(str, 1, k - 1)>> \o Split(SubSeq(str, k + 1, Len(str)), sep)

NaN == [kind |-> "NaN", value |-> 0]
Undefined == [kind |-> "undefined", value |-> 0]
Num(n) == [kind |-> "number", value |-> n]

RECURSIVE DecimalValue(_)
DecimalValue(digits) ==
    IF digits = << >> THEN 0
    ELSE 10 * DecimalValue(SubSeq(digits, 1, Len(digits) - 1))
         + (CHOOSE d \in 0..9 : Digit[d + 1] = digits[Len(digits)])

\* Number(string) for strings of digits, signs and points: the empty string
\* is 0, an optional sign followed by digits is that integer, the rest NaN
Number(str) ==
    LET body == IF str # << >> /\ str[1] \in {"-", "+"} THEN Tail(str) ELSE str
        allDigits == body # << >> /\ \A i \in 1..Len(body) :
                                          \E d \in 1..10 : Digit[d] = body[i]
    IN  IF str = << >> THEN Num(0)
        ELSE IF ~allDigits THEN NaN
        ELSE IF str[1] = "-" THEN Num(0 - DecimalValue(body))
        ELSE Num(DecimalValue(body))

\* const [q, r] = hexString.split('.').map(Number); return { q, r }
parseHexCoords(str) ==
    LET parts == Split(str, ".")
    IN  [q |-> Number(parts[1]),
         r |-> IF Len(parts) >= 2 THEN Number(parts[2]) ELSE Undefined]

Coords == (0 - MaxCoord)..MaxCoord

\* a hex of the map is taken and its key is built
BuildKey ==
    /\ \E q \in Coords, r \in Coords :
           /\ hexInput' = [q |-> q, r |-> r]
           /\ hexString' = HexKey(q, r)
    /\ hexParsed' = [q |-> [kind |-> "unset", value |-> 0],
                     r |-> [kind |-> "unset", value |-> 0]]
    /\ UNCHANGED <<turn, tribes, diplomaticProposals, startingLocations,
                   INITIAL_GLOBAL_RESOURCES, now, emitted, alert, log,
                   submissions, purged>>

\* the key is parsed back
ParseKey ==
    /\ hexString # << >>
    /\ hexParsed' = parseHexCoords(hexString)
    /\ UNCHANGED <<hexInput, hexString>>
    /\ UNCHANGED <<turn, tribes, diplomaticProposals, startingLocations,
                   INITIAL_GLOBAL_RESOURCES, now, emitted, alert, log,
                   submissions, purged>>

NextHex ==
    \/ BuildKey /\ UNCHANGED <<storeVars, mapVars, sideVars>>
    \/ ParseKey /\ UNCHANGED <<storeVars, mapVars, sideVars>>

SpecHex == Init /\ [][NextHex]_vars

\* C20: whenever the key built from integer coordinates (q, r), negative
\* ones included, has been parsed back, the result is (q, r)
C20_ParseInvertsKey ==
    hexParsed.q.kind # "unset" =>
        hexParsed = [q |-> Num(hexInput.q), r |-> Num(hexInput.r)]
\* ------------------------------------------------------- getHexesInRange
Abs(n) == IF n < 0 THEN 0 - n ELSE n

\* the (q, r) the two for loops visit, in their order
LoopOrder(center, range) ==
    LET w == 2 * range + 1
    IN  [k \in 1..(w * w) |->
            [q |-> center.q - range + ((k - 1) \div w),
             r |-> center.r - range + ((k - 1) % w)]]

\* getHexesInRange(center, range)
getHexesInRange(center, range) ==
    LET kept == SelectSeq(LoopOrder(center, range),
                          LAMBDA h : Abs(h.q - center.q) + Abs(h.r - center.r)
                                         <= range * 2)
    IN  [k \in 1..Len(kept) |-> HexKey(kept[k].q, kept[k].r)]

Centers == (0 - MaxCenter)..MaxCenter

CallRange ==
    /\ \E cq \in Centers, cr \in Centers, range \in 0..MaxRange :
           hexRange' = [done |-> TRUE, center |-> [q |-> cq, r |-> cr],
                        range |-> range,
                        results |-> getHexesInRange([q |-> cq, r |-> cr], range)]
    /\ UNCHANGED <<turn, tribes, diplomaticProposals, startingLocations,
                   INITIAL_GLOBAL_RESOURCES, now, emitted, alert, log, submissions,
                   purged, hexInput, hexString, hexParsed, gen, returned, storeVars, sideVars>>

NextRange == CallRange

SpecRange == Init /\ [][NextRange]_vars

\* C21: what getHexesInRange(center, range) returns is exactly the keys of
\* the integer (q, r) with |q - center.q| + |r - center.r| <= 2 * range
C21_RangeIsTheDiamond ==
    hexRange.done =>
        LET c == hexRange.center
            n == 2 * hexRange.range
        IN  {hexRange.results[k] : k \in 1..Len(hexRange.results)}
            = {HexKey(h[1], h[2]) :
                 h \in {x \in ((c.q - n)..(c.q + n)) \X ((c.r - n)..(c.r + n)) :
                           Abs(x[1] - c.q) + Abs(x[2] - c.r) <= n}}

\* ------------------------------------------------------- generateMapData
\* Object.values(TERRAIN_TYPES)
terrainTypes ==
    <<"Plains", "Desert", "Mountains", "Forest", "Ruins", "Wasteland", "Water",
      "Radiation", "Crater", "Swamp">>

\* values of Math.random(), in tenths: 0.0, 0.5 and 0.9
Randoms == {0, 5, 9}
TerrainRandoms == {d \in 0..9 : d < MaxTerrains}

\* the hexes the two for loops keep: |q| + |r| <= radius * 1.5
MapHexes(radius) ==
    SelectSeq(LoopOrder([q |-> 0, r |-> 0], radius),
              LAMBDA h : 2 * (Abs(h.q) + Abs(h.r)) <= 3 * radius)

\* Math.abs(q) < radius/3 && Math.abs(r) < radius/3
NearCenter(h, radius) == 3 * Abs(h.q) < radius /\ 3 * Abs(h.r) < radius

\* the hexes kept for which `Math.random() > 0.8` is evaluated
Central(radius) ==
    {k \in 1..Len(MapHexes(radius)) : NearCenter(MapHexes(radius)[k], radius)}

\* the for loops: terrainDraw gives, per hex kept, the value Math.random()
\* returned for its terrain, startDraw, per hex near the center, the value
\* it returned for `Math.random() > 0.8`
Grid(radius, terrainDraw, startDraw) ==
    LET hexes == MapHexes(radius)
        idx == [k \in 1..Len(hexes) |-> k]
        chosen == SelectSeq(idx, LAMBDA k : k \in Central(radius) /\ startDraw[k] > 8)
    IN  [map |-> [k \in 1..Len(hexes) |->
                    [q |-> hexes[k].q, r |-> hexes[k].r,
                     terrain |-> terrainTypes[terrainDraw[k] + 1]]],
         startingLocations |-> [n \in 1..Len(chosen) |->
                                  HexKey(hexes[chosen[n]].q, hexes[chosen[n]].r)]]

\* Math.floor(Math.random() * (radius/2)) * (Math.random() > 0.5 ? 1 : -1)
Fallback(radius, d, sign) == ((d * radius) \div 20) * (IF sign > 5 THEN 1 ELSE 0 - 1)

Includes(arr, x) == \E k \in 1..Len(arr) : arr[k] = x

\* one pass of the while loop on the starting locations so far
Pass(radius, locs, d) ==
    LET loc == HexKey(Fallback(radius, d[1], d[2]), Fallback(radius, d[3], d[4]))
    IN  IF Includes(locs, loc) THEN locs ELSE Append(locs, loc)

Radii == 1..MaxRadius
Seeds == 1..MaxSeed

\* generateMapData(radius, seed, settings) up to the while loop
EnterGenerate(radius, seed) ==
    /\ gen.phase \in {"idle", "done"}
    /\ \E terrainDraw \in [1..Len(MapHexes(radius)) -> TerrainRandoms],
          startDraw \in [Central(radius) -> Randoms] :
           /\ gen' = [phase |-> "topup", radius |-> radius, seed |-> seed,
                      map |-> Grid(radius, terrainDraw, startDraw).map,
                      startingLocations |->
                          Grid(radius, terrainDraw, startDraw).startingLocations]
    /\ UNCHANGED <<turn, tribes, diplomaticProposals, startingLocations,
                   INITIAL_GLOBAL_RESOURCES, now, emitted, alert, log, submissions,
                   purged, hexInput, hexString, hexParsed, hexRange, returned,
                   storeVars, sideVars>>

\* while (startingLocations.length < 5) { ... }: one pass
TopUp ==
    /\ gen.phase = "topup"
    /\ Len(gen.startingLocations) < 5
    /\ \E d \in [1..4 -> Randoms] :
           gen' = [gen EXCEPT !.startingLocations = Pass(gen.radius, @, d)]
    /\ UNCHANGED <<turn, tribes, diplomaticProposals, startingLocations,
                   INITIAL_GLOBAL_RESOURCES, now, emitted, alert, log, submissions,
                   purged, hexInput, hexString, hexParsed, hexRange, returned,
                   storeVars, sideVars>>

\* return { map, startingLocations }
Return ==
    /\ gen.phase = "topup"
    /\ Len(gen.startingLocations) >= 5
    /\ gen' = [gen EXCEPT !.phase = "done"]
    /\ returned' = [radius |-> gen.radius, seed |-> gen.seed, map |-> gen.map,
                    startingLocations |-> gen.startingLocations]
    /\ UNCHANGED <<turn, tribes, diplomaticProposals, startingLocations,
                   INITIAL_GLOBAL_RESOURCES, now, emitted, alert, log, submissions,
                   purged, hexInput, hexString, hexParsed, hexRange, storeVars, sideVars>>

\* one call of generateMapData
NextGenerate ==
    \/ gen.phase = "idle" /\ \E radius \in Radii, seed \in Seeds : EnterGenerate(radius, seed)
    \/ TopUp
    \/ Return

\* the loop goes on to its next pass, and the function returns once the
\* loop has ended
SpecGenerate ==
    Init /\ [][NextGenerate]_vars /\ WF_vars(TopUp) /\ WF_vars(Return)

PairwiseDistinct(arr) ==
    \A i, j \in 1..Len(arr) : i # j => arr[i] # arr[j]

\* C22: every call of generateMapData with a positive radius returns, and
\* what it returns holds at least 5 starting locations, pairwise distinct
C22_GenerationTerminates ==
    (gen.phase = "topup") ~>
        (/\ gen.phase = "done"
         /\ Len(returned.startingLocations) >= 5
         /\ PairwiseDistinct(returned.startingLocations))

\* ------------------------------------------------ two calls of generateMapData
\* the while loop run on the values Math.random() returns pass by pass
RECURSIVE Passes(_, _, _)
Passes(radius, locs, draws) ==
    IF Len(locs) >= 5 \/ draws = << >> THEN locs
    ELSE Passes(radius, Pass(radius, locs, Head(draws)), Tail(draws))

\* a call that has returned: radius 3, seed 1, every draw of the for loops
\* 0.0, and five passes of the while loop
EarlierCall ==
    LET grid == Grid(3, [k \in 1..Len(MapHexes(3)) |-> 0], [k \in Central(3) |-> 0])
    IN  [radius |-> 3, seed |-> 1, map |-> grid.map,
         startingLocations |->
             Passes(3, grid.startingLocations,
                    <<<<0, 0, 0, 0>>, <<9, 9, 0, 0>>, <<9, 0, 0, 0>>,
                      <<0, 0, 9, 9>>, <<0, 0, 9, 0>>>>)]

InitRuns ==
    /\ InitGame
    /\ InitStore
    /\ hexRange = [done |-> FALSE, center |-> [q |-> 0, r |-> 0], range |-> 0,
                   results |-> << >>]
    /\ gen = Idle
    /\ returned = EarlierCall

\* a second call after the earlier one
SpecRuns == InitRuns /\ [][NextGenerate]_vars

\* C23: a call of generateMapData with the radius and seed of the call
\* before it returns the same hex sequence and the same starting locations
C23_SameInputsSameMap ==
    [][(Return /\ gen.radius = returned.radius /\ gen.seed = returned.seed) =>
          /\ returned'.map = returned.map
          /\ returned'.startingLocations = returned.startingLocations]_vars

\* ------------------------------------------------ tribe names and colours
MaxNames == 2
MaxColors == 2

\* shared/constants.js
TRIBE_COLORS ==
    <<"#F56565", "#4299E1", "#48BB78", "#ED8936", "#9F7AEA", "#ECC94B",
      "#38B2AC", "#ED64A6", "#A0AEC0", "#667EEA", "#F687B3", "#D69E2E",
      "#319795", "#6B46C1", "#C53030", "#059669">>

aiTribeNames ==
    <<"Ravagers", "Scrap Hounds", "Dust Devils", "Iron Fists", "Rust Raiders",
      "Wasteland Wolves", "Toxic Avengers", "Shadow Walkers">>

\* the values of Math.floor(Math.random() * length) that are followed
NameDraws == 1..MaxNames
ColorDraws == 1..MaxColors

\* what a client can type into the tribe creation form
ClientNames == {"Vault Dwellers", aiTribeNames[1]}

Banner(tribeName, color) == [tribeName |-> tribeName, color |-> color]

\* state.tribes.map(t => t.tribeName)
existingNames == {banners[i].tribeName : i \in 1..Len(banners)}

existingColors == {banners[i].color : i \in 1..Len(banners)}

\* socket.on('create_tribe'): tribeName and color come with newTribeData
create_tribe_Banner ==
    \E newTribeData \in [playerId : {<<"user", 1>>}, tribeName : ClientNames,
                         color : {TRIBE_COLORS[c] : c \in ColorDraws}] :
        /\ create_tribe(newTribeData)
        /\ banners' = IF Len(tribes') = Len(tribes) + 1
                      THEN Append(banners, Banner(newTribeData.tribeName,
                                                  newTribeData.color))
                      ELSE banners
        /\ UNCHANGED <<hexVars, storeVars, requestVars, extras, timeVars, drawing>>

\* actionHandlers.add_ai_tribe: the do-while of generateAITribe ends with the
\* first drawn name that is not in existingNames and does not end when every
\* name that is drawn is taken; the colour is the one draw
add_ai_tribe_Banner ==
    /\ add_ai_tribe
    /\ IF Len(tribes') = Len(tribes) + 1
       THEN \E n \in NameDraws, c \in ColorDraws :
                /\ aiTribeNames[n] \notin existingNames
                /\ banners' = Append(banners, Banner(aiTribeNames[n], TRIBE_COLORS[c]))
       ELSE UNCHANGED banners
    /\ UNCHANGED <<hexVars, storeVars, requestVars, extras, timeVars, drawing>>

\* socket.on('start_new_game'): gameState.tribes = []
start_new_game_Banner ==
    /\ tribes # << >>
    /\ start_new_game
    /\ banners' = << >>
    /\ UNCHANGED <<hexVars, storeVars, requestVars, extras, timeVars, drawing>>

NextBanner ==
    \/ Tick /\ OffStage
    \/ create_tribe_Banner
    \/ add_ai_tribe_Banner
    \/ start_new_game_Banner

SpecBanner == Init /\ [][NextBanner]_vars

\* C25: a tribe added by add_ai_tribe has a name no tribe already in the
\* World has and a colour no tribe already in the World has
C25_AITribeNameAndColorAreNew ==
    [][(Len(tribes') = Len(tribes) + 1 /\ tribes'[Len(tribes')].isAI) =>
          LET b == banners'[Len(banners')]
          IN  /\ b.tribeName \notin existingNames
              /\ b.color \notin existingColors]_vars

\* ------------------------------------------------ broadcast after a change
\* the starting locations in the opposite order
MovedStarts == [k \in 1..Len(Locations) |-> Locations[Len(Locations) + 1 - k]]

\* what the map editor sends, and the same without the hexes
MapPayloads ==
    {[newMapData |-> << >>, newStartingLocations |-> MovedStarts],
     [newStartingLocations |-> MovedStarts]}

NextBroadcast ==
    \/ Tick /\ OffStage
    \/ Len(tribes) < MaxTribes /\ create_tribe([playerId |-> <<"user", 1>>]) /\ OffStage
    \/ Len(tribes) < MaxTribes /\ add_ai_tribe /\ OffStage
    \/ \E u \in UserIds : remove_player(u) /\ OffStage
    \/ turn < MaxRound /\ start_new_game /\ OffStage
    \/ turn < MaxRound /\ process_turn /\ OffStage
    \/ \E backup \in {LaterBackup, BackupWithoutUsers} : load_backup(backup) /\ OffStage
    \/ \E payload \in MapPayloads : update_map(payload) /\ OffStage

SpecBroadcast == Init /\ [][NextBroadcast]_vars

\* C26: a command that changes the World broadcasts the World it leaves
\* behind, also when its handler fails part-way
C26_ChangeIsBroadcast ==
    [][World' # World => emitted' = World']_vars

\* ------------------------------------------------ chief and asset requests
MaxPending == 1      \* requests held in each of the two arrays
MaxGrants == 2       \* chiefs in a garrison, assets of a tribe

\* the names of ALL_CHIEFS, and the keys of the table in getAsset
ALL_CHIEFS == {"Warlord Kain", "Scout Lyra"}
getAsset == {"Ancient Codex", "Fusion Cell", "Satellite Uplink"}

\* names a client can put into a request
ChiefNames == {"Warlord Kain", "Nobody"}
AssetNames == {"Fusion Cell", "Nothing"}

UnknownRequestId == <<"req", 0 - 1>>

\* state.chiefRequests.find(r => r.id === reqId)
FindRequest(rs, reqId) == First(WithId(rs, reqId))

\* arr.push(x) on the array kept for the tribe, created when absent
Pushed(obj, id, x) ==
    [k \in DOMAIN obj \cup {id} |->
        IF k = id
        THEN Append(IF id \in DOMAIN obj THEN obj[id] ELSE << >>, x)
        ELSE obj[k]]

Held(obj, id) == IF id \in DOMAIN obj THEN Len(obj[id]) ELSE 0

\* the chiefs array a tribe's home garrison points at: create_tribe and
\* generateAITribe build the garrison as { ...INITIAL_GARRISON }, a shallow
\* copy, so its chiefs is the one array of the constant; a tribe that came
\* with a snapshot has an array of its own
SharedChiefs == <<"INITIAL_GARRISON", 0>>
ChiefsKey(tribeId) == IF tribeId = BackupTribe.id THEN tribeId ELSE SharedChiefs

\* actionHandlers.request_chief
request_chief(payload) ==
    /\ Len(chiefRequests) < MaxPending
    /\ Generic(World, "")
    /\ chiefRequests' = Append(chiefRequests,
                               [id |-> <<"req", now>>, tribeId |-> payload.tribeId,
                                chiefName |-> payload.chiefName, status |-> "pending"])
    /\ grants' = [grants EXCEPT !.chief = Append(@, 0)]
    /\ UNCHANGED <<assetRequests, chiefs, assets>>

\* actionHandlers.approve_chief
approve_chief(reqId) ==
    LET k == FindRequest(chiefRequests, reqId)
    IN  IF k # 0
        THEN LET req == chiefRequests[k]
                 found == FindTribe(tribes, req.tribeId) # 0 /\ req.chiefName \in ALL_CHIEFS
             IN  /\ found => Held(chiefs, ChiefsKey(req.tribeId)) < MaxGrants
                 /\ chiefRequests' = [chiefRequests EXCEPT ![k].status = "approved"]
                 /\ chiefs' = IF found
                              THEN Pushed(chiefs, ChiefsKey(req.tribeId), req.chiefName)
                              ELSE chiefs
                 /\ grants' = IF found THEN [grants EXCEPT !.chief[k] = @ + 1] ELSE grants
                 /\ Generic(World, IF found THEN ""
                                   ELSE "Failed to add chief: tribe or chief data not found")
                 /\ UNCHANGED <<assetRequests, assets>>
        ELSE Generic(World, "") /\ UNCHANGED requestVars

\* actionHandlers.deny_chief
deny_chief(reqId) ==
    LET k == FindRequest(chiefRequests, reqId)
    IN  /\ chiefRequests' = IF k # 0 THEN [chiefRequests EXCEPT ![k].status = "denied"]
                            ELSE chiefRequests
        /\ Generic(World, "")
        /\ UNCHANGED <<assetRequests, chiefs, assets, grants>>

\* actionHandlers.request_asset
request_asset(payload) ==
    /\ Len(assetRequests) < MaxPending
    /\ Generic(World, "")
    /\ assetRequests' = Append(assetRequests,
                               [id |-> <<"asset-req", now>>, tribeId |-> payload.tribeId,
                                assetName |-> payload.assetName, status |-> "pending"])
    /\ grants' = [grants EXCEPT !.asset = Append(@, 0)]
    /\ UNCHANGED <<chiefRequests, chiefs, assets>>

\* actionHandlers.approve_asset
approve_asset(reqId) ==
    LET k == FindRequest(assetRequests, reqId)
    IN  IF k # 0
        THEN LET req == assetRequests[k]
                 found == FindTribe(tribes, req.tribeId) # 0 /\ req.assetName \in getAsset
             IN  /\ found => Held(assets, req.tribeId) < MaxGrants
                 /\ assetRequests' = [assetRequests EXCEPT ![k].status = "approved"]
                 /\ assets' = IF found THEN Pushed(assets, req.tribeId, req.assetName)
                              ELSE assets
                 /\ grants' = IF found THEN [grants EXCEPT !.asset[k] = @ + 1] ELSE grants
                 /\ Generic(World, IF found THEN ""
                                   ELSE "Failed to add asset: tribe or asset data not found")
                 /\ UNCHANGED <<chiefRequests, chiefs>>
        ELSE Generic(World, "") /\ UNCHANGED requestVars

\* actionHandlers.deny_asset
deny_asset(reqId) ==
    LET k == FindRequest(assetRequests, reqId)
    IN  /\ assetRequests' = IF k # 0 THEN [assetRequests EXCEPT ![k].status = "denied"]
                            ELSE assetRequests
        /\ Generic(World, "")
        /\ UNCHANGED <<chiefRequests, chiefs, assets, grants>>

\* the ids a client can name in a request or in a decision
RequestTribeIds == {tribes[i].id : i \in 1..Len(tribes)} \cup {UnknownTribeId}
ChiefRequestIds == {chiefRequests[k].id : k \in 1..Len(chiefRequests)} \cup {UnknownRequestId}
AssetRequestIds == {assetRequests[k].id : k \in 1..Len(assetRequests)} \cup {UnknownRequestId}

\* what the request commands leave alone
Backstage == UNCHANGED <<hexVars, storeVars, banners, extras, timeVars, drawing>>

NextRequests ==
    \/ Tick /\ OffStage
    \/ Len(tribes) < MaxTribes /\ create_tribe([playerId |-> <<"user", 1>>]) /\ OffStage
    \/ \E payload \in [tribeId : RequestTribeIds, chiefName : ChiefNames] :
           request_chief(payload) /\ Backstage
    \/ \E reqId \in ChiefRequestIds : approve_chief(reqId) /\ Backstage
    \/ \E reqId \in ChiefRequestIds : deny_chief(reqId) /\ Backstage
    \/ \E payload \in [tribeId : RequestTribeIds, assetName : AssetNames] :
           request_asset(payload) /\ Backstage
    \/ \E reqId \in AssetRequestIds : approve_asset(reqId) /\ Backstage
    \/ \E reqId \in AssetRequestIds : deny_asset(reqId) /\ Backstage

SpecRequests == Init /\ [][NextRequests]_vars

Decided(req) == req.status \in {"approved", "denied"}

\* tribe.garrisons[tribe.location].chiefs as the tribe with this id reads it
ChiefsSeen(arrays, tribeId) ==
    IF ChiefsKey(tribeId) \in DOMAIN arrays THEN arrays[ChiefsKey(tribeId)] ELSE << >>

\* C35: approving a chief request leaves the chiefs of the home garrison of
\* every tribe other than the target as they were, and a tribe created later
\* starts with none
C35_ApprovalTouchesOneGarrison ==
    [][/\ \A reqId \in ChiefRequestIds :
              (approve_chief(reqId) /\ Backstage /\ FindRequest(chiefRequests, reqId) # 0) =>
                  LET req == chiefRequests[FindRequest(chiefRequests, reqId)]
                  IN  \A i \in 1..Len(tribes) :
                          tribes[i].id # req.tribeId =>
                              ChiefsSeen(chiefs', tribes[i].id) = ChiefsSeen(chiefs, tribes[i].id)
       /\ Len(tribes') = Len(tribes) + 1 =>
              ChiefsSeen(chiefs', tribes'[Len(tribes')].id) = << >>]_vars

\* C27: a chief or asset request that has been approved or denied keeps its
\* status under every later approve or deny command, and no request puts its
\* chief or asset into the tribe more than once
C27_DecidedRequestIsFinal ==
    [][/\ \A k \in 1..Len(chiefRequests) :
              /\ Decided(chiefRequests[k]) =>
                     chiefRequests'[k].status = chiefRequests[k].status
              /\ grants'.chief[k] <= 1
       /\ \A k \in 1..Len(assetRequests) :
              /\ Decided(assetRequests[k]) =>
                     assetRequests'[k].status = assetRequests[k].status
              /\ grants'.asset[k] <= 1]_vars

\* ------------------------------------------------ references to the absent
\* the commands that look an entity up by an id the client sends
NextReferences ==
    \/ Tick /\ OffStage
    \/ Len(tribes) < MaxTribes /\ create_tribe([playerId |-> <<"user", 1>>]) /\ OffStage
    \/ \E id \in TribeIds, a \in PlannedActions, j \in JourneyResponses :
           submit_turn(id, a, j) /\ OffStage
    \/ DiplomacyCommand /\ OffStage
    \/ \E payload \in [tribeId : RequestTribeIds, chiefName : ChiefNames] :
           request_chief(payload) /\ Backstage
    \/ \E reqId \in ChiefRequestIds : approve_chief(reqId) /\ Backstage
    \/ \E reqId \in ChiefRequestIds : deny_chief(reqId) /\ Backstage
    \/ \E reqId \in AssetRequestIds : approve_asset(reqId) /\ Backstage
    \/ \E reqId \in AssetRequestIds : deny_asset(reqId) /\ Backstage

SpecReferences == Init /\ [][NextReferences]_vars

\* a command that names a tribe, a proposal or a request the World does not hold
NamesTheAbsent ==
    \/ \E a \in PlannedActions, j \in JourneyResponses :
           submit_turn(UnknownTribeId, a, j) /\ OffStage
    \/ accept_proposal(UnknownProposalId) /\ OffStage
    \/ reject_proposal(UnknownProposalId) /\ OffStage
    \/ approve_chief(UnknownRequestId) /\ Backstage
    \/ deny_chief(UnknownRequestId) /\ Backstage
    \/ approve_asset(UnknownRequestId) /\ Backstage
    \/ deny_asset(UnknownRequestId) /\ Backstage
    \/ \E f \in TribeIds : \E t \in TribeIds \ {f} :
           /\ UnknownTribeId \in {f, t}
           /\ \/ declare_war(f, t)
              \/ propose_alliance(f, t)
              \/ sue_for_peace(f, t)
           /\ OffStage

\* C29: a command that names an entity the World does not hold leaves the
\* World as it was and sends the issuing client an alert
C29_AbsentReferenceIsRefused ==
    [][NamesTheAbsent =>
          /\ UNCHANGED <<world, chiefRequests, assetRequests, chiefs, assets>>
          /\ alert' # ""]_vars

\* ------------------------------------------------ the admin commands
\* the id register gave the account of a user name
AccountId(username) == IF username = "ada" THEN <<"user", 1>> ELSE <<"user", 0>>

\* a snapshot file of a later round, with its users and every field of its
\* gameState
FullBackup ==
    [gameState |-> WorldOf(3, <<BackupTribe>>, << >>, Locations,
                           [food |-> 100, scrap |-> 20, morale |-> 50]),
     users |-> <<"Admin", "bob">>,
     chiefRequests |-> <<[id |-> <<"req", 0 - 2>>, tribeId |-> BackupTribe.id,
                          chiefName |-> "Scout Lyra", status |-> "pending"]>>,
     extras |-> [mapData |-> <<"000.000", "001.000">>, journeys |-> <<"journey">>,
                 history |-> <<"turn 2">>, mapSeed |-> 1]]

\* the arrays tribe objects no longer in the World held are gone with them
OnlyShared(obj) == [k \in DOMAIN obj \cap {SharedChiefs} |-> obj[k]]

\* a start_new_game that leaves the requests in place
startNewGame_KeepsRequests ==
    /\ start_new_game
    /\ chiefs' = OnlyShared(chiefs)
    /\ assets' = EmptyObject
    /\ extras' = [extras EXCEPT !.journeys = << >>, !.history = << >>]
    /\ UNCHANGED <<chiefRequests, assetRequests, grants, banners, hexVars, storeVars, timeVars, drawing>>

\* socket.on('start_new_game'), every assignment of the handler; users is not
\* assigned
startNewGame ==
    /\ start_new_game
    /\ chiefRequests' = << >>
    /\ assetRequests' = << >>
    /\ grants' = [chief |-> << >>, asset |-> << >>]
    /\ chiefs' = OnlyShared(chiefs)
    /\ assets' = EmptyObject
    /\ extras' = [extras EXCEPT !.journeys = << >>, !.history = << >>]
    /\ UNCHANGED <<banners, hexVars, storeVars, timeVars, drawing>>

\* socket.on('load_backup'): gameState = backup.gameState replaces every
\* field of the World; users = backup.users assigns the handler's parameter,
\* the module's users keeps its value
loadBackup(backup) ==
    /\ load_backup(backup)
    /\ chiefRequests' = backup.chiefRequests
    /\ assetRequests' = << >>
    /\ grants' = [chief |-> [k \in 1..Len(backup.chiefRequests) |-> 0], asset |-> << >>]
    /\ chiefs' = OnlyShared(chiefs)
    /\ assets' = EmptyObject
    /\ extras' = backup.extras
    /\ UNCHANGED <<banners, hexVars, storeVars, timeVars, drawing>>

\* socket.on('remove_player'): users = users.filter(..) assigns the handler's
\* parameter, the module's users keeps its value
removePlayer(userId) ==
    /\ remove_player(userId)
    /\ UNCHANGED <<hexVars, storeVars, sideVars>>

NextAdmin ==
    \/ Tick /\ OffStage
    \/ Len(tribes) < MaxTribes /\ create_tribe([playerId |-> <<"user", 1>>]) /\ OffStage
    \/ /\ requests < MaxRequests
       /\ \E username \in Usernames : register(username)
       /\ Serving
    \/ \E payload \in [tribeId : RequestTribeIds, chiefName : ChiefNames] :
           request_chief(payload) /\ Backstage
    \/ \E reqId \in ChiefRequestIds : approve_chief(reqId) /\ Backstage
    \/ startNewGame
    \/ loadBackup(FullBackup)
    \/ \E userId \in UserIds : removePlayer(userId)

SpecAdmin == Init /\ [][NextAdmin]_vars

\* C31: start_new_game leaves no tribes, no chief or asset requests, no
\* journeys, no proposals, an empty history and turn 1, and leaves the map,
\* the starting locations, the map seed and the users as they were
C31_NewGameResetsTheRound ==
    [][startNewGame =>
          /\ tribes' = << >>
          /\ chiefRequests' = << >> /\ assetRequests' = << >>
          /\ extras'.journeys = << >> /\ extras'.history = << >>
          /\ diplomaticProposals' = << >>
          /\ turn' = 1
          /\ extras'.mapData = extras.mapData /\ extras'.mapSeed = extras.mapSeed
          /\ startingLocations' = startingLocations
          /\ users' = users]_vars

\* a new game has been started over a loaded snapshot that had a tribe, a
\* request, a journey and a history, with a registered user in the store
C31_Witness ==
    /\ extras.mapSeed = FullBackup.extras.mapSeed
    /\ extras.journeys = << >>
    /\ chiefRequests = << >>
    /\ tribes = << >>
    /\ turn = 1
    /\ Len(users) = 2

\* C32: after load_backup the World and the users of the server are those of
\* the snapshot
C32_BackupReplacesWorldAndUsers ==
    [][loadBackup(FullBackup) =>
          /\ tribes' = FullBackup.gameState.tribes
          /\ turn' = FullBackup.gameState.turn
          /\ extras' = FullBackup.extras
          /\ users' = FullBackup.users]_vars

\* C40: after remove_player(userId) no tribe of that player is in the World
\* and no user with that id is in the users of the server
C40_RemovedPlayerIsGone ==
    [][\A userId \in UserIds :
           removePlayer(userId) =>
               /\ \A i \in 1..Len(tribes') : tribes'[i].playerId # userId
               /\ \A k \in 1..Len(users') : AccountId(users'[k]) # userId]_vars

\* ------------------------------------------------ the debounce delay
MaxTime == 4             \* seconds followed
DebounceDelay == 2       \* setTimeout(.., 2000)

\* what a command with its debouncedSave() leaves alone
Quiet == UNCHANGED <<hexVars, banners, requestVars, extras, drawing, isShuttingDown,
                     exited, loaded>>

\* saveTimeout = setTimeout(.., 2000) in a call made now
Armed ==
    /\ fireAt' = elapsed + DebounceDelay
    /\ unsavedSince' = IF unsavedSince < 0 THEN elapsed ELSE unsavedSince
    /\ UNCHANGED elapsed

\* time passes while no timer is due
Wait ==
    /\ elapsed < MaxTime
    /\ timers > 0 => elapsed < fireAt
    /\ elapsed' = elapsed + 1
    /\ UNCHANGED <<turn, tribes, diplomaticProposals, startingLocations,
                   INITIAL_GLOBAL_RESOURCES, now, emitted, alert, log, submissions,
                   purged, hexVars, storeVars, banners, requestVars, extras, fireAt,
                   unsavedSince, drawing>>

\* the callback of the timer, when it is due
TimerFiresWhenDue ==
    /\ ~exited
    /\ timers > 0
    /\ elapsed = fireAt
    /\ timers' = timers - 1
    /\ saveData(isShuttingDown, Stringify(World, users), "none")
    /\ saveTimeout' = FALSE
    /\ coalesced' = requests
    /\ requests' = 0
    /\ fireAt' = 0 - 1
    /\ unsavedSince' = 0 - 1
    /\ UNCHANGED <<turn, tribes, diplomaticProposals, startingLocations,
                   INITIAL_GLOBAL_RESOURCES, now, emitted, alert, log, submissions,
                   purged, users, elapsed>>
    /\ Quiet

NextDebounce ==
    \/ /\ requests < MaxRequests
       /\ create_tribe([playerId |-> <<"user", 1>>])
       /\ UNCHANGED users
       /\ IF alert' = "" THEN Debounced /\ Armed ELSE NoSave /\ UNCHANGED timeVars
       /\ Quiet
    \/ /\ requests < MaxRequests
       /\ \E id \in TribeIds : submit_turn(id, <<"Move">>, <<"accept">>)
       /\ UNCHANGED users
       /\ IF log' = "" THEN Debounced /\ Armed ELSE NoSave /\ UNCHANGED timeVars
       /\ Quiet
    \/ Wait
    \/ TimerFiresWhenDue

SpecDebounce == Init /\ [][NextDebounce]_vars

\* C36: a change waiting to be saved is written no later than one debounce
\* delay after the first debouncedSave() call that has not been saved
C36_WriteWithinOneDelay ==
    unsavedSince >= 0 => elapsed <= unsavedSince + DebounceDelay

\* ------------------------------------------------ saving over what was found
\* the server starts on whatever the disk holds, then serves and saves
NextKeep ==
    \/ \E fault \in Faults :
           /\ fault # "none" => faults < MaxFaults
           /\ StartUp(fault)
    \/ /\ loaded.done /\ requests < MaxRequests
       /\ create_tribe([playerId |-> <<"user", 1>>])
       /\ UNCHANGED users
       /\ IF alert' = "" THEN Debounced ELSE NoSave
       /\ Serving
    \/ /\ loaded.done /\ turn < MaxRound
       /\ process_turn
       /\ UNCHANGED users
       /\ \E fault \in Faults :
              /\ fault # "none" => faults < MaxFaults
              /\ Immediate(fault)
       /\ Serving
    \/ \E fault \in Faults :
           /\ fault # "none" => faults < MaxFaults
           /\ TimerFires(fault)

SpecKeep == InitLoad /\ [][NextKeep]_vars

\* the file parses and holds both a World and a user list
Complete(file) ==
    /\ file.kind = "json"
    /\ file.doc.gameState.shape = "world"
    /\ file.doc.users.shape = "array"

\* C37: if the primary or the backup file holds a complete parsable state
\* before a save, one of them still does after it, whether the write
\* succeeded or failed
C37_SaveKeepsAValidCopy ==
    [][(Complete(DATA_FILE) \/ Complete(BACKUP_FILE))
           => (Complete(DATA_FILE') \/ Complete(BACKUP_FILE'))]_vars

\* ------------------------------------------------ identifiers
MaxPair == 2             \* proposals pending at once

\* tribes join and proposals are made, answered and refused, while
\* Date.now() moves on between some commands and not between others
NextIdentity ==
    \/ Tick /\ OffStage
    \/ Len(tribes) < MaxTribes /\ create_tribe([playerId |-> <<"user", 1>>]) /\ OffStage
    \/ Len(tribes) < MaxTribes /\ add_ai_tribe /\ OffStage
    \/ /\ Len(diplomaticProposals) < MaxPair
       /\ \E from, to \in TribeIds : Propose(from, to, Alliance)
       /\ OffStage
    \/ /\ Len(diplomaticProposals) < MaxPair
       /\ \E from, to \in TribeIds : Propose(from, to, Neutral)
       /\ OffStage
    \/ \E id \in ProposalIds : accept_proposal(id) /\ OffStage
    \/ \E id \in ProposalIds : reject_proposal(id) /\ OffStage

SpecIdentity == Init /\ [][NextIdentity]_vars

\* C38: the tribes have pairwise distinct ids and the pending proposals have
\* pairwise distinct ids, also when several were made at one clock value, and
\* rejecting the id of a pending proposal removes exactly one proposal
C38_IdentitiesAreDistinct ==
    /\ [](/\ PairwiseDistinct([i \in 1..Len(tribes) |-> tribes[i].id])
          /\ PairwiseDistinct([i \in 1..Len(diplomaticProposals) |->
                                  diplomaticProposals[i].id]))
    /\ [][\A id \in ProposalIds :
              (/\ reject_proposal(id) /\ OffStage
               /\ FindProposal(diplomaticProposals, id) # 0)
                  => Len(diplomaticProposals') = Len(diplomaticProposals) - 1]_vars

\* ------------------------------------------------ the name loop of add_ai_tribe
\* a map with one starting location more than the roster has names
WideStarts == [i \in 1..(Len(aiTribeNames) + 1) |-> i]

Taken(n) == aiTribeNames[n] \in existingNames

\* the values of Math.floor(Math.random() * aiTribeNames.length) that are
\* followed: every taken entry, and the first MaxNames free entries
RosterDraws ==
    {n \in 1..Len(aiTribeNames) :
        Taken(n) \/ Cardinality({m \in 1..(n - 1) : ~Taken(m)}) < MaxNames}

NotInTheLoop == UNCHANGED <<banners, hexVars, storeVars, requestVars, extras, timeVars,
                            drawing>>

\* actionHandlers.add_ai_tribe with a free starting location: generateAITribe
\* is called and reaches its do-while
add_ai_tribe_Enter ==
    /\ ~drawing
    /\ AvailableStart(startingLocations, {tribes[i].location : i \in 1..Len(tribes)}) # 0
    /\ drawing' = TRUE
    /\ UNCHANGED <<turn, tribes, diplomaticProposals, startingLocations,
                   INITIAL_GLOBAL_RESOURCES, now, emitted, alert, log, submissions,
                   purged, banners, hexVars, storeVars, requestVars, extras, timeVars>>

\* do { tribeName = aiTribeNames[..] } while (existingNames.includes(tribeName)):
\* one pass; with a name that is not taken the loop ends and the handler
\* goes on to push the tribe
DrawName ==
    /\ drawing
    /\ \E n \in RosterDraws :
           IF Taken(n)
           THEN UNCHANGED vars
           ELSE /\ add_ai_tribe
                /\ banners' = Append(banners, Banner(aiTribeNames[n], TRIBE_COLORS[1]))
                /\ drawing' = FALSE
                /\ UNCHANGED <<hexVars, storeVars, requestVars, extras, timeVars>>

NextRoster ==
    \/ /\ ~drawing /\ startingLocations # WideStarts
       /\ update_map([newMapData |-> << >>, newStartingLocations |-> WideStarts])
       /\ NotInTheLoop
    \/ add_ai_tribe_Enter
    \/ /\ ~drawing
       /\ AvailableStart(startingLocations, {tribes[i].location : i \in 1..Len(tribes)}) = 0
       /\ add_ai_tribe
       /\ NotInTheLoop
    \/ DrawName

\* the loop goes on to its next pass, and Math.random() does not avoid the
\* free names for ever
SpecRoster == Init /\ [][NextRoster]_vars /\ WF_vars(DrawName)

\* C39: every add_ai_tribe command that has been started completes
C39_AddAITribeTerminates ==
    drawing ~> ~drawing

====
